---------------------------- MODULE Spec2Model ----------------------------
(***************************************************************************)
(* CampusConnect (src/src/App.jsx, src/supabase_schema.sql): the login,    *)
(* room directory and chat coordinator of the portal, as a state machine.  *)
(*                                                                         *)
(* Strings that the code computes with (credentials, profile ids, room     *)
(* names, message texts) are sequences of UTF-16 code units, so that       *)
(* charCodeAt, toString(16), slice, padEnd, sort, join and trim are        *)
(* computed and not assumed.  Strings that are only stored and shown       *)
(* (display names, labels, room kinds) are TLA+ strings.                   *)
(*                                                                         *)
(* Every await of the code is a step boundary: the action before the       *)
(* await issues the request, the action after it is the store evaluating   *)
(* the request together with the continuation of the handler.              *)
(***************************************************************************)
EXTENDS Integers, Sequences, FiniteSets, TLC

(***************************************************************************)
(* Bounds of the model.                                                    *)
(***************************************************************************)
MaxSubmits == 2
MaxSends == 2
MaxSwitches == 2
MaxDMs == 3
MaxKindChanges == 1
MaxRedeliveries == 1
MaxPurges == 2
MaxTicks == 2
MaxDeletes == 2
MaxNoticeOps == 2

Sessions == {1, 2}

\* the JavaScript null of a state or of a query result
Null == [null |-> TRUE]

(***************************************************************************)
(* Strings as sequences of code units.                                     *)
(***************************************************************************)
Admin123 == <<97, 100, 109, 105, 110, 49, 50, 51>>
CredA == <<57, 57, 57, 57, 57, 57, 57, 57, 57, 57>>
CredB == <<57, 57, 57, 57, 57, 57, 48, 48, 48, 48>>
CredC == <<49, 50, 51, 52, 53, 54, 55, 56, 57, 48>>
CredShort == <<49, 50, 51, 52, 53>>
CredAlpha == <<49, 50, 51, 52, 53, 97, 98, 99, 100, 101>>
EmptyStr == << >>

ValidCredentials == {Admin123, CredA, CredB}
SubmittedCredentials == ValidCredentials \cup {CredShort, CredAlpha, EmptyStr}
Names == {"Asha", "Asha Verma"}
SubmittedNames == Names \cup {""}

\* Number.prototype.toString(16) digit, as a code unit: 0-9 then a-f
HexChar(d) == IF d < 10 THEN 48 + d ELSE 87 + d

RECURSIVE ToHex(_)
\* c.charCodeAt(0).toString(16): no leading zeros
ToHex(n) == IF n < 16 THEN <<HexChar(n)>> ELSE ToHex(n \div 16) \o <<HexChar(n % 16)>>

RECURSIVE JoinHex(_)
\* Array.from(s).map(c => c.charCodeAt(0).toString(16)).join('')
JoinHex(s) == IF s = << >> THEN << >> ELSE ToHex(Head(s)) \o JoinHex(Tail(s))

\* String.prototype.slice(0, n)
Slice0(s, n) == IF Len(s) <= n THEN s ELSE SubSeq(s, 1, n)

\* String.prototype.padEnd(n, c) for a one-unit pad string
PadEnd(s, n, c) == IF Len(s) >= n THEN s ELSE s \o [i \in 1..(n - Len(s)) |-> c]

SafeHexLen == 12

SafeHex(phoneNumber) == PadEnd(Slice0(JoinHex(phoneNumber), SafeHexLen), SafeHexLen, 48)

\* "00000000-0000-0000-0000-"
IdTemplate == <<48, 48, 48, 48, 48, 48, 48, 48, 45, 48, 48, 48, 48, 45, 48, 48, 48, 48, 45, 48, 48, 48, 48, 45>>

PseudoId(phoneNumber) == IdTemplate \o SafeHex(phoneNumber)

PhoneRegexTestLengthOnly(s) == Len(s) = 10

\* /^[0-9]{10}$/.test(s)
PhoneRegexTest(s) == Len(s) = 10 /\ \A i \in 1..Len(s) : s[i] >= 48 /\ s[i] <= 57

\* .single(): the row when exactly one row matches, otherwise data is null
Single(S) == IF Cardinality(S) = 1 THEN CHOOSE x \in S : TRUE ELSE Null

SeqToSet(q) == {q[i] : i \in 1..Len(q)}

\* message texts: "hi", " " and " hi"
TextHi == <<104, 105>>
TextBlank == <<32>>
TextPadded == <<32, 104, 105>>
Texts == {TextHi, TextBlank, TextPadded}

\* the code units String.prototype.trim removes (those that occur in Texts)
IsWhiteSpace(c) == c \in {9, 10, 11, 12, 13, 32}

RECURSIVE TrimStart(_)
TrimStart(t) == IF t # << >> /\ IsWhiteSpace(Head(t)) THEN TrimStart(Tail(t)) ELSE t

RECURSIVE TrimEnd(_)
TrimEnd(t) ==
  IF t # << >> /\ IsWhiteSpace(t[Len(t)]) THEN TrimEnd(SubSeq(t, 1, Len(t) - 1)) ELSE t

\* String.prototype.trim
Trim(t) == TrimEnd(TrimStart(t))

RECURSIVE StrLess(_, _)
\* a < b on strings: by code units, a proper prefix first
StrLess(a, b) ==
  IF b = << >> THEN FALSE
  ELSE IF a = << >> THEN TRUE
  ELSE IF Head(a) # Head(b) THEN Head(a) < Head(b)
  ELSE StrLess(Tail(a), Tail(b))

SortPairUnsorted(x, y) == <<x, y>>

\* [x, y].sort(): the default comparison of Array.prototype.sort on two strings
SortPair(x, y) == IF StrLess(y, x) THEN <<y, x>> ELSE <<x, y>>

\* [x, y].join(':')
JoinColon(pair) == pair[1] \o <<58>> \o pair[2]

(***************************************************************************)
(* State.                                                                  *)
(***************************************************************************)
VARIABLES
  profiles,        \* table public.profiles: set of rows
  dbRooms,         \* table public.rooms: rows in insertion order
  dbMessages,      \* table public.messages: set of rows
  nextId,          \* next value of gen_random_uuid() for rooms and messages
  now,             \* the clock, in seconds
  user,            \* App state user, per session
  isAdmin,         \* App state isAdmin, per session
  storedUser,      \* localStorage item cc_user, per session
  rooms,           \* App state rooms, per session
  loginError,      \* LoginScreen state error
  isAuthenticating,\* LoginScreen state isAuthenticating
  loginTimers,     \* pending setTimeout chains of handleSubmit
  loginRuns,       \* handleLogin invocations that are at an await
  fetchRuns,       \* fetchGlobalData invocations that are at an await
  logoutRuns,      \* handleLogout invocations that are at the await
  chatOpen,        \* whether the ChatPortal is mounted
  activeRoom,      \* ChatPortal state activeRoom
  inputText,       \* ChatPortal state inputText
  chatMessages,    \* ChatPortal state chatMessages
  showRealNames,   \* ChatPortal state showRealNames
  allProfiles,     \* ChatPortal state allProfiles
  initRuns,        \* fetchInitial invocations that are at an await
  sendRuns,        \* sendMessage invocations that are at the await
  dmRuns,          \* startDM invocations that are at an await
  msgChannel,      \* events of the room's message subscription not yet handed to the handler
  msgAwait,        \* message insert handlers that are at the await of the sender lookup
  submits,         \* number of form submissions so far
  sends,           \* number of sendMessage calls so far
  dms,             \* number of startDM calls so far
  switches,        \* number of clicks on a room of the list so far
  kindChanges,     \* number of updates of a room's type so far
  redeliveries,    \* number of change events delivered a second time so far
  purgeRuns,       \* purgeChats invocations that are at the await of the delete
  adminMsg,        \* AdminPanel state msg
  purges,          \* number of purgeChats calls so far
  ticks,           \* number of advances of the clock so far
  loading,         \* App state loading, per session
  startRuns,       \* invocations of init of the mount effect of App
  statusRuns,      \* updateStatus invocations that are at the await of the update
  deleteRuns,      \* deleteRoom invocations that are at the await of the delete
  deletes,         \* number of deleteRoom calls so far
  dbNotices,       \* table public.notices: set of rows
  notices,         \* App state notices, per session
  portalChannel,   \* events of the channel portal-updates not yet handed to a handler
  noticeRuns,      \* saveNotice and notice delete invocations that are at the await
  noticeOps        \* number of saveNotice and notice delete calls so far

storeVars == <<profiles, dbRooms, dbMessages, nextId, now>>
appVars == <<user, isAdmin, storedUser, rooms>>
loginVars == <<loginError, isAuthenticating, loginTimers, loginRuns, fetchRuns, logoutRuns>>
chatVars == <<chatOpen, activeRoom, inputText, chatMessages, showRealNames, allProfiles>>
asyncVars == <<initRuns, sendRuns, dmRuns, msgChannel, msgAwait>>
countVars == <<submits, sends, dms, switches, kindChanges, redeliveries>>
startVars == <<loading, startRuns, statusRuns>>
adminVars == <<deleteRuns, deletes>>
portalVars == <<dbNotices, notices, portalChannel, noticeRuns, noticeOps>>
maintVars == <<purgeRuns, adminMsg, purges, ticks, startVars, adminVars, portalVars>>

vars == <<storeVars, appVars, loginVars, chatVars, asyncVars, countVars, maintVars>>

(***************************************************************************)
(* Store: public.profiles                                                  *)
(***************************************************************************)
\* insert into profiles: primary key on id, unique on student_id
ProfileInsertOk(tbl, row) ==
  \A p \in tbl : p.id # row.id /\ p.student_id # row.student_id

ProfileRowAllStudents(id, phoneNumber, name) ==
  [id |-> id, student_id |-> phoneNumber, full_name |-> name, role |-> "student",
   is_online |-> FALSE]

\* the row handleLogin inserts, with the default of column is_online
ProfileRow(id, phoneNumber, name) ==
  [id |-> id, student_id |-> phoneNumber, full_name |-> name,
   role |-> IF phoneNumber = Admin123 THEN "admin" ELSE "student",
   is_online |-> FALSE]

\* update profiles set is_online = status where id = id
ProfilesSetOnline(tbl, id, status) ==
  {IF p.id = id THEN [p EXCEPT !.is_online = status] ELSE p : p \in tbl}

\* the columns full_name, student_id of a profile, as the message queries select them
ProfileFields(p) ==
  IF p = Null THEN Null ELSE [full_name |-> p.full_name, student_id |-> p.student_id]

\* from('profiles').select('*'): the rows as a list
RECURSIVE SetToSeq(_)
SetToSeq(S) ==
  IF S = {} THEN << >>
  ELSE LET x == CHOOSE y \in S : TRUE IN <<x>> \o SetToSeq(S \ {x})

(***************************************************************************)
(* Store: public.rooms                                                     *)
(***************************************************************************)
\* "General Campus"
GeneralCampus ==
  <<71, 101, 110, 101, 114, 97, 108, 32, 67, 97, 109, 112, 117, 115>>

\* "Anonymous Hall"
AnonymousHall ==
  <<65, 110, 111, 110, 121, 109, 111, 117, 115, 32, 72, 97, 108, 108>>

RoomRow(id, name, type) == [id |-> id, name |-> name, type |-> type]

\* the two rows fetchGlobalData inserts when the rooms query has no rows
DefaultRooms(firstId) ==
  <<RoomRow(firstId, GeneralCampus, "group"),
    RoomRow(firstId + 1, AnonymousHall, "anonymous")>>

\* from('rooms').select('*').eq('name', roomName).single()
RoomByName(tbl, roomName) == Single({r \in SeqToSet(tbl) : r.name = roomName})

(***************************************************************************)
(* Store: public.messages                                                  *)
(***************************************************************************)
\* room_id references rooms(id), sender_id references profiles(id)
MessageInsertOk(req) ==
  /\ \E r \in SeqToSet(dbRooms) : r.id = req.room_id
  /\ \E p \in profiles : p.id = req.sender_id

MessageRow(id, req, createdAt) ==
  [id |-> id, room_id |-> req.room_id, sender_id |-> req.sender_id,
   content |-> req.content, is_anonymous |-> req.is_anonymous,
   created_at |-> createdAt]

\* the row of a message with the embedded profiles(full_name, student_id)
WithProfile(m, p) ==
  [id |-> m.id, room_id |-> m.room_id, sender_id |-> m.sender_id,
   content |-> m.content, is_anonymous |-> m.is_anonymous,
   created_at |-> m.created_at, profiles |-> ProfileFields(p)]

RECURSIVE OrderByCreatedAt(_)
\* .order('created_at', { ascending: true })
OrderByCreatedAt(S) ==
  IF S = {} THEN << >>
  ELSE LET m == CHOOSE x \in S : \A y \in S : x.created_at <= y.created_at
       IN <<m>> \o OrderByCreatedAt(S \ {m})

\* the clock counts seconds: the factor 1000 of the code's milliseconds is
\* left out of every span, the model's integers having 32 bits
Hour == 60 * 60
Day == 24 * 60 * 60
TwoDays == 2 * 24 * 60 * 60

\* new Date(Date.now() - span).toISOString(): the browser and the store read
\* one clock
Cutoff(span) == now - span

InWindowInclusive(m, roomId, cutoff) == m.room_id = roomId /\ m.created_at >= cutoff

\* .eq('room_id', roomId).gt('created_at', cutoff)
InWindow(m, roomId, cutoff) == m.room_id = roomId /\ m.created_at > cutoff

RecentMessagesByRoomKind(roomId, cutoff) ==
  OrderByCreatedAt({[WithProfile(m, Single({p \in profiles : p.id = m.sender_id}))
                       EXCEPT !.is_anonymous =
                         \E r \in SeqToSet(dbRooms) : r.id = m.room_id /\ r.type = "anonymous"] :
                     m \in {x \in dbMessages : InWindow(x, roomId, cutoff)}})

\* the messages query of fetchInitial, evaluated by the store
RecentMessages(roomId, cutoff) ==
  OrderByCreatedAt({WithProfile(m, Single({p \in profiles : p.id = m.sender_id})) :
                     m \in {x \in dbMessages : InWindow(x, roomId, cutoff)}})

(***************************************************************************)
(* Store: public.notices                                                   *)
(***************************************************************************)
\* a row of notices; content and color are carried like title
NoticeRow(id, title, createdAt) == [id |-> id, title |-> title, created_at |-> createdAt]

RECURSIVE OrderByCreatedAtDesc(_)
\* .order('created_at', { ascending: false })
OrderByCreatedAtDesc(S) ==
  IF S = {} THEN << >>
  ELSE LET m == CHOOSE x \in S : \A y \in S : x.created_at >= y.created_at
       IN <<m>> \o OrderByCreatedAtDesc(S \ {m})

(***************************************************************************)
(* ChatPortal: effects of a change of activeRoom                           *)
(***************************************************************************)
\* setActiveRoom(room) with the effects that depend on activeRoom: the message
\* subscription is removed and made anew, fetchInitial is called
SetActiveRoom(s, room) ==
  /\ activeRoom' = [activeRoom EXCEPT ![s] = room]
  /\ msgChannel' = [msgChannel EXCEPT ![s] = << >>]
  /\ initRuns' = [initRuns EXCEPT ![s] = @ \cup {[pc |-> "profiles", room |-> room]}]

\* setRooms(list) seen by a mounted ChatPortal: without an active room the
\* first room of the list becomes the active room
RoomsChanged(s, list) ==
  IF chatOpen[s] /\ activeRoom[s] = Null /\ Len(list) > 0
    THEN SetActiveRoom(s, list[1])
    ELSE UNCHANGED <<activeRoom, msgChannel, initRuns>>

\* alter publication supabase_realtime add table ...: the tables whose changes
\* the change feed carries
Publication == {"messages", "profiles", "notices", "subjects", "materials"}

\* the change feed after an insert of rows into rooms: an INSERT event per row
\* on the channel of every App, when the table is in the publication
PublishRooms(rows) ==
  IF "rooms" \in Publication
    THEN [s \in Sessions |->
            portalChannel[s] \o [i \in 1..Len(rows) |->
              [table |-> "rooms", eventType |-> "INSERT", new |-> rows[i]]]]
    ELSE portalChannel

\* the rooms handler of the channel portal-updates on an INSERT:
\* setRooms(prev => prev.find(r => r.id === payload.new.id) ? prev : [...prev, payload.new])
RoomInsertMerge(prev, new) ==
  IF \E i \in 1..Len(prev) : prev[i].id = new.id THEN prev ELSE Append(prev, new)

(***************************************************************************)
(* App: fetchGlobalData                                                    *)
(***************************************************************************)
\* the call up to the await of Promise.all
StartFetch(s) == fetchRuns[s] \cup {[pc |-> "query"]}

\* the queries answer: setNotices; rooms present: setRooms, otherwise go on to
\* the insert
FetchGlobalDataQuery(s) ==
  /\ [pc |-> "query"] \in fetchRuns[s]
  /\ notices' = [notices EXCEPT ![s] = OrderByCreatedAtDesc(dbNotices)]
  /\ IF Len(dbRooms) > 0
       THEN /\ rooms' = [rooms EXCEPT ![s] = dbRooms]
            /\ fetchRuns' = [fetchRuns EXCEPT ![s] = @ \ {[pc |-> "query"]}]
            /\ RoomsChanged(s, dbRooms)
       ELSE /\ rooms' = rooms
            /\ fetchRuns' = [fetchRuns EXCEPT ![s] = (@ \ {[pc |-> "query"]}) \cup {[pc |-> "insert"]}]
            /\ UNCHANGED <<activeRoom, msgChannel, initRuns>>
  /\ UNCHANGED <<purgeRuns, adminMsg, purges, ticks, startVars, adminVars, dbNotices,
                 portalChannel, noticeRuns, noticeOps>>
  /\ UNCHANGED <<storeVars, user, isAdmin, storedUser, loginError,
                 isAuthenticating, loginTimers, loginRuns, logoutRuns,
                 chatOpen, inputText, chatMessages, showRealNames, allProfiles,
                 sendRuns, dmRuns, msgAwait, countVars>>

\* the rooms query answers with an error, the notices query with its rows:
\* roomRes.data is null and the run goes on to the insert
FetchGlobalDataQueryFailed(s) ==
  /\ [pc |-> "query"] \in fetchRuns[s]
  /\ notices' = [notices EXCEPT ![s] = OrderByCreatedAtDesc(dbNotices)]
  /\ fetchRuns' = [fetchRuns EXCEPT ![s] = (@ \ {[pc |-> "query"]}) \cup {[pc |-> "insert"]}]
  /\ UNCHANGED <<purgeRuns, adminMsg, purges, ticks, startVars, adminVars, dbNotices,
                 portalChannel, noticeRuns, noticeOps>>
  /\ UNCHANGED <<storeVars, appVars, loginError, isAuthenticating, loginTimers, loginRuns,
                 logoutRuns, chatVars, asyncVars, countVars>>

\* the insert of the default rooms answers with the created rows
FetchGlobalDataInsert(s) ==
  /\ [pc |-> "insert"] \in fetchRuns[s]
  /\ dbRooms' = dbRooms \o DefaultRooms(nextId)
  /\ nextId' = nextId + 2
  /\ rooms' = [rooms EXCEPT ![s] = DefaultRooms(nextId)]
  /\ fetchRuns' = [fetchRuns EXCEPT ![s] = @ \ {[pc |-> "insert"]}]
  /\ RoomsChanged(s, DefaultRooms(nextId))
  /\ portalChannel' = PublishRooms(DefaultRooms(nextId))
  /\ UNCHANGED <<purgeRuns, adminMsg, purges, ticks, startVars, adminVars, dbNotices,
                 notices, noticeRuns, noticeOps>>
  /\ UNCHANGED <<profiles, dbMessages, now, user, isAdmin, storedUser, loginError,
                 isAuthenticating, loginTimers, loginRuns, logoutRuns,
                 chatOpen, inputText, chatMessages, showRealNames, allProfiles,
                 sendRuns, dmRuns, msgAwait, countVars>>

(***************************************************************************)
(* App: handleLogin                                                        *)
(***************************************************************************)
NewUser(id, name, phoneNumber) ==
  [id |-> id, name |-> name, phoneNumber |-> phoneNumber,
   isAdmin |-> (phoneNumber = Admin123)]

LoginUserIdWrongColumn(profile, phoneNumber) ==
  IF profile = Null THEN PseudoId(phoneNumber) ELSE profile.student_id

\* the id handleLogin puts into newUser once the profile lookup has answered
LoginUserId(profile, phoneNumber) ==
  IF profile = Null THEN PseudoId(phoneNumber) ELSE profile.id

SessionNameStored(profile, name) == IF profile = Null THEN name ELSE profile.full_name

\* the name handleLogin puts into newUser: the argument, whatever the lookup finds
SessionName(profile, name) == name

\* handleLogin(name, phoneNumber) up to the await of the profile lookup
\* n tells the calls apart
StartLogin(runs, name, phoneNumber, n) ==
  runs \cup {[pc |-> "select", name |-> name, phoneNumber |-> phoneNumber, n |-> n]}

\* setUser, setIsAdmin, localStorage.setItem and the call of fetchGlobalData
LoginEstablish(s, r, id) ==
  /\ user' = [user EXCEPT ![s] = NewUser(id, r.name, r.phoneNumber)]
  /\ isAdmin' = [isAdmin EXCEPT ![s] = (r.phoneNumber = Admin123)]
  /\ storedUser' = [storedUser EXCEPT ![s] = NewUser(id, r.name, r.phoneNumber)]
  /\ fetchRuns' = [fetchRuns EXCEPT ![s] = StartFetch(s)]
  \* the LoginScreen is unmounted once a user is set; its state is gone
  /\ loginError' = [loginError EXCEPT ![s] = ""]
  /\ isAuthenticating' = [isAuthenticating EXCEPT ![s] = FALSE]

\* the profile lookup answers
HandleLoginSelect(s, r) ==
  /\ r \in loginRuns[s]
  /\ r.pc = "select"
  /\ LET profile == Single({p \in profiles : p.student_id = r.phoneNumber})
     IN IF profile = Null
          THEN /\ loginRuns' = [loginRuns EXCEPT ![s] = (@ \ {r}) \cup {[r EXCEPT !.pc = "insert"]}]
               /\ UNCHANGED <<user, isAdmin, storedUser, fetchRuns, loginError, isAuthenticating>>
          ELSE /\ loginRuns' = [loginRuns EXCEPT ![s] = @ \ {r}]
               /\ LoginEstablish(s, [r EXCEPT !.name = SessionName(profile, r.name)],
                                 LoginUserId(profile, r.phoneNumber))
  /\ UNCHANGED maintVars
  /\ UNCHANGED <<storeVars, rooms, loginTimers, logoutRuns, chatVars, asyncVars, countVars>>

\* the profile insert answers; its error, if any, is not looked at
HandleLoginInsert(s, r) ==
  /\ r \in loginRuns[s]
  /\ r.pc = "insert"
  /\ LET row == ProfileRow(PseudoId(r.phoneNumber), r.phoneNumber, r.name)
     IN profiles' = IF ProfileInsertOk(profiles, row) THEN profiles \cup {row} ELSE profiles
  /\ loginRuns' = [loginRuns EXCEPT ![s] = @ \ {r}]
  /\ LoginEstablish(s, [r EXCEPT !.name = SessionName(Null, r.name)],
                    LoginUserId(Null, r.phoneNumber))
  /\ UNCHANGED maintVars
  /\ UNCHANGED <<dbRooms, dbMessages, nextId, now, rooms, loginTimers, logoutRuns,
                 chatVars, asyncVars, countVars>>

(***************************************************************************)
(* LoginScreen: handleSubmit                                               *)
(***************************************************************************)
\* the LoginScreen is rendered while no user is set; its submit button is
\* disabled while isAuthenticating
CanSubmit(s) == user[s] = Null /\ ~isAuthenticating[s]

\* the branch handleSubmit takes: the checks in the order of the code
SubmitBranch(name, phoneNumber) ==
  IF name = "" \/ phoneNumber = EmptyStr THEN "empty"
  ELSE IF phoneNumber = Admin123 THEN "admin"
  ELSE IF ~PhoneRegexTest(phoneNumber) THEN "format"
  ELSE "timer"

HandleSubmit(s, name, phoneNumber) ==
  /\ CanSubmit(s)
  /\ submits < MaxSubmits
  /\ submits' = submits + 1
  /\ IF SubmitBranch(name, phoneNumber) = "empty"
       THEN /\ loginError' = [loginError EXCEPT ![s] = "Please fill in all fields"]
            /\ UNCHANGED <<isAuthenticating, loginTimers, loginRuns>>
       ELSE IF SubmitBranch(name, phoneNumber) = "admin"
         THEN /\ loginError' = [loginError EXCEPT ![s] = ""]
              /\ loginRuns' = [loginRuns EXCEPT ![s] = StartLogin(@, name, phoneNumber, submits)]
              /\ UNCHANGED <<isAuthenticating, loginTimers>>
         ELSE IF SubmitBranch(name, phoneNumber) = "format"
           THEN /\ loginError' = [loginError EXCEPT ![s] = "Please enter a valid 10-digit number"]
                /\ UNCHANGED <<isAuthenticating, loginTimers, loginRuns>>
           ELSE /\ loginError' = [loginError EXCEPT ![s] = ""]
                /\ isAuthenticating' = [isAuthenticating EXCEPT ![s] = TRUE]
                /\ loginTimers' = [loginTimers EXCEPT ![s] =
                     @ \cup {[name |-> name, phoneNumber |-> phoneNumber, n |-> submits]}]
                /\ UNCHANGED loginRuns
  /\ UNCHANGED maintVars
  /\ UNCHANGED <<storeVars, appVars, fetchRuns, logoutRuns, chatVars, asyncVars,
                 sends, dms, switches, kindChanges, redeliveries>>

\* the two setTimeout calls have run out: onLogin(name, phoneNumber)
LoginTimerFires(s, t) ==
  /\ t \in loginTimers[s]
  /\ loginTimers' = [loginTimers EXCEPT ![s] = @ \ {t}]
  /\ loginRuns' = [loginRuns EXCEPT ![s] = StartLogin(@, t.name, t.phoneNumber, t.n)]
  /\ UNCHANGED maintVars
  /\ UNCHANGED <<storeVars, appVars, loginError, isAuthenticating, fetchRuns,
                 logoutRuns, chatVars, asyncVars, countVars>>

(***************************************************************************)
(* App: handleLogout                                                       *)
(***************************************************************************)
\* the click: with a user set, the is_online update is issued and awaited
HandleLogoutStart(s) ==
  /\ user[s] # Null
  /\ logoutRuns[s] = {}
  /\ logoutRuns' = [logoutRuns EXCEPT ![s] = {[id |-> user[s].id]}]
  /\ UNCHANGED maintVars
  /\ UNCHANGED <<storeVars, appVars, loginError, isAuthenticating, loginTimers,
                 loginRuns, fetchRuns, chatVars, asyncVars, countVars>>

\* a handler of an unmounted ChatPortal still runs, its state updates are lost
Orphaned(runs) == {[r EXCEPT !.alive = FALSE] : r \in runs}

\* the ChatPortal leaves the tree: its state and its subscriptions are gone
ChatUnmount(s) ==
  /\ chatOpen' = [chatOpen EXCEPT ![s] = FALSE]
  /\ activeRoom' = [activeRoom EXCEPT ![s] = Null]
  /\ inputText' = [inputText EXCEPT ![s] = EmptyStr]
  /\ chatMessages' = [chatMessages EXCEPT ![s] = << >>]
  /\ showRealNames' = [showRealNames EXCEPT ![s] = FALSE]
  /\ allProfiles' = [allProfiles EXCEPT ![s] = << >>]
  /\ initRuns' = [initRuns EXCEPT ![s] = {}]
  /\ msgChannel' = [msgChannel EXCEPT ![s] = << >>]
  /\ msgAwait' = [msgAwait EXCEPT ![s] = {}]
  /\ sendRuns' = [sendRuns EXCEPT ![s] = Orphaned(@)]
  /\ dmRuns' = [dmRuns EXCEPT ![s] = Orphaned(@)]

\* the update answers: setUser(null), setIsAdmin(false), removeItem
HandleLogoutFinish(s, r) ==
  /\ r \in logoutRuns[s]
  /\ profiles' = ProfilesSetOnline(profiles, r.id, FALSE)
  /\ logoutRuns' = [logoutRuns EXCEPT ![s] = @ \ {r}]
  /\ user' = [user EXCEPT ![s] = Null]
  /\ isAdmin' = [isAdmin EXCEPT ![s] = FALSE]
  /\ storedUser' = [storedUser EXCEPT ![s] = Null]
  /\ ChatUnmount(s)
  /\ UNCHANGED maintVars
  /\ UNCHANGED <<dbRooms, dbMessages, nextId, now, rooms, loginError, isAuthenticating,
                 loginTimers, loginRuns, fetchRuns, countVars>>

(***************************************************************************)
(* ChatPortal: mount, fetchInitial, room selection                         *)
(***************************************************************************)
\* the route /chat is entered: the ChatPortal mounts with its initial state,
\* its effects call fetchInitial and subscribe to the active room
OpenChat(s) ==
  /\ user[s] # Null
  /\ ~chatOpen[s]
  /\ chatOpen' = [chatOpen EXCEPT ![s] = TRUE]
  /\ SetActiveRoom(s, IF Len(rooms[s]) > 0 THEN rooms[s][1] ELSE Null)
  /\ inputText' = [inputText EXCEPT ![s] = EmptyStr]
  /\ chatMessages' = [chatMessages EXCEPT ![s] = << >>]
  /\ showRealNames' = [showRealNames EXCEPT ![s] = FALSE]
  /\ allProfiles' = [allProfiles EXCEPT ![s] = << >>]
  /\ UNCHANGED maintVars
  /\ UNCHANGED <<storeVars, appVars, loginVars, sendRuns, dmRuns, msgAwait, countVars>>

\* fetchInitial: the profiles query answers; with an active room twoDaysAgo
\* is computed and the messages query issued
FetchInitialProfiles(s, r) ==
  /\ r \in initRuns[s]
  /\ r.pc = "profiles"
  /\ allProfiles' = [allProfiles EXCEPT ![s] = SetToSeq(profiles)]
  /\ initRuns' = [initRuns EXCEPT ![s] =
       IF r.room # Null
         THEN (@ \ {r}) \cup {[pc |-> "messages", room |-> r.room, cutoff |-> Cutoff(TwoDays)]}
         ELSE @ \ {r}]
  /\ UNCHANGED maintVars
  /\ UNCHANGED <<storeVars, appVars, loginVars, chatOpen, activeRoom, inputText,
                 chatMessages, showRealNames, sendRuns, dmRuns, msgChannel, msgAwait,
                 countVars>>

\* fetchInitial: the messages query of the room answers, the evaluation by the
\* store and the arrival of the answer in one step
FetchInitialMessages(s, r) ==
  /\ r \in initRuns[s]
  /\ r.pc = "messages"
  /\ chatMessages' = [chatMessages EXCEPT ![s] = RecentMessages(r.room.id, r.cutoff)]
  /\ initRuns' = [initRuns EXCEPT ![s] = @ \ {r}]
  /\ UNCHANGED maintVars
  /\ UNCHANGED <<storeVars, appVars, loginVars, chatOpen, activeRoom, inputText,
                 showRealNames, allProfiles, sendRuns, dmRuns, msgChannel, msgAwait,
                 countVars>>

\* fetchInitial, the messages query with its answer on the way: the store
\* evaluates the query of the room
FetchInitialEvaluated(s, r) ==
  /\ r \in initRuns[s]
  /\ r.pc = "messages"
  /\ initRuns' = [initRuns EXCEPT ![s] =
       (@ \ {r}) \cup {[pc |-> "response", room |-> r.room,
                         msgs |-> RecentMessages(r.room.id, r.cutoff)]}]
  /\ UNCHANGED maintVars
  /\ UNCHANGED <<storeVars, appVars, loginVars, chatVars, sendRuns, dmRuns, msgChannel,
                 msgAwait, countVars>>

\* fetchInitial: the answer of the messages query arrives, setChatMessages(msgs)
FetchInitialReturned(s, r) ==
  /\ r \in initRuns[s]
  /\ r.pc = "response"
  /\ chatMessages' = [chatMessages EXCEPT ![s] = r.msgs]
  /\ initRuns' = [initRuns EXCEPT ![s] = @ \ {r}]
  /\ UNCHANGED maintVars
  /\ UNCHANGED <<storeVars, appVars, loginVars, chatOpen, activeRoom, inputText,
                 showRealNames, allProfiles, sendRuns, dmRuns, msgChannel, msgAwait,
                 countVars>>

\* a click on a room of the list
SelectRoom(s, room) ==
  /\ chatOpen[s]
  /\ room \in SeqToSet(rooms[s])
  /\ room # activeRoom[s]
  /\ switches < MaxSwitches
  /\ switches' = switches + 1
  /\ SetActiveRoom(s, room)
  /\ UNCHANGED maintVars
  /\ UNCHANGED <<storeVars, appVars, loginVars, chatOpen, inputText, chatMessages,
                 showRealNames, allProfiles, sendRuns, dmRuns, msgAwait,
                 submits, sends, dms, kindChanges, redeliveries>>

(***************************************************************************)
(* ChatPortal: the message input and sendMessage                           *)
(***************************************************************************)
\* onChange of the message input
TypeText(s, t) ==
  /\ chatOpen[s]
  /\ t # inputText[s]
  /\ inputText' = [inputText EXCEPT ![s] = t]
  /\ UNCHANGED maintVars
  /\ UNCHANGED <<storeVars, appVars, loginVars, chatOpen, activeRoom, chatMessages,
                 showRealNames, allProfiles, asyncVars, countVars>>

SendRequestTrimmed(s) ==
  [room_id |-> activeRoom[s].id, sender_id |-> user[s].id, content |-> Trim(inputText[s]),
   is_anonymous |-> (activeRoom[s].type = "anonymous")]

\* the row sendMessage hands to insert
SendRequest(s) ==
  [room_id |-> activeRoom[s].id, sender_id |-> user[s].id, content |-> inputText[s],
   is_anonymous |-> (activeRoom[s].type = "anonymous")]

\* sendMessage up to the await of the insert
SendMessage(s) ==
  /\ chatOpen[s]
  /\ Trim(inputText[s]) # EmptyStr
  /\ activeRoom[s] # Null
  /\ sends < MaxSends
  /\ sends' = sends + 1
  /\ sendRuns' = [sendRuns EXCEPT ![s] = @ \cup {[req |-> SendRequest(s), n |-> sends, alive |-> TRUE]}]
  /\ inputText' = [inputText EXCEPT ![s] = EmptyStr]
  /\ UNCHANGED maintVars
  /\ UNCHANGED <<storeVars, appVars, loginVars, chatOpen, activeRoom, chatMessages,
                 showRealNames, allProfiles, initRuns, dmRuns, msgChannel, msgAwait,
                 submits, dms, switches, kindChanges, redeliveries>>

\* a session holds a message subscription with the filter room_id=eq.roomId
Subscribed(s, roomId) ==
  chatOpen[s] /\ activeRoom[s] # Null /\ activeRoom[s].id = roomId

\* the change feed of table messages puts the INSERT on every matching subscription
PublishMessage(row) ==
  [s \in Sessions |->
     IF Subscribed(s, row.room_id)
       THEN Append(msgChannel[s], [new |-> row, copy |-> 0])
       ELSE msgChannel[s]]

InputAfterSendKeepTyped(current, r, failed) ==
  IF failed /\ r.alive /\ current = EmptyStr THEN r.content ELSE current

\* the text in the input once the insert has answered
InputAfterSend(current, r, failed) ==
  IF failed /\ r.alive THEN r.content ELSE current

\* the insert answers: with an error (a constraint of the table or the
\* transport, accepted = FALSE) or with the row stored
SendMessageAnswer(s, r, accepted) ==
  /\ r \in sendRuns[s]
  /\ sendRuns' = [sendRuns EXCEPT ![s] = @ \ {r}]
  /\ IF accepted /\ MessageInsertOk(r.req)
       THEN /\ dbMessages' = dbMessages \cup {MessageRow(nextId, r.req, now)}
            /\ nextId' = nextId + 1
            /\ now' = now + 1
            /\ msgChannel' = PublishMessage(MessageRow(nextId, r.req, now))
            /\ inputText' = [inputText EXCEPT ![s] =
                 InputAfterSend(@, [content |-> r.req.content, alive |-> r.alive], FALSE)]
       ELSE /\ UNCHANGED <<dbMessages, nextId, now, msgChannel>>
            /\ inputText' = [inputText EXCEPT ![s] =
                 InputAfterSend(@, [content |-> r.req.content, alive |-> r.alive], TRUE)]
  /\ UNCHANGED maintVars
  /\ UNCHANGED <<profiles, dbRooms, appVars, loginVars, chatOpen, activeRoom,
                 chatMessages, showRealNames, allProfiles, initRuns, dmRuns, msgAwait,
                 countVars>>

(***************************************************************************)
(* ChatPortal: the message subscription                                    *)
(***************************************************************************)
\* an INSERT event reaches the handler, which awaits the sender lookup
MessageEventDelivered(s) ==
  /\ msgChannel[s] # << >>
  /\ msgAwait' = [msgAwait EXCEPT ![s] = @ \cup {Head(msgChannel[s])}]
  /\ msgChannel' = [msgChannel EXCEPT ![s] = Tail(@)]
  /\ UNCHANGED maintVars
  /\ UNCHANGED <<storeVars, appVars, loginVars, chatVars, initRuns, sendRuns, dmRuns,
                 countVars>>

\* the transport hands an INSERT event to the handler and keeps it for a
\* second delivery
MessageEventRedelivered(s) ==
  /\ msgChannel[s] # << >>
  /\ Head(msgChannel[s]).copy = 0
  /\ redeliveries < MaxRedeliveries
  /\ redeliveries' = redeliveries + 1
  /\ msgAwait' = [msgAwait EXCEPT ![s] = @ \cup {Head(msgChannel[s])}]
  /\ msgChannel' = [msgChannel EXCEPT ![s] =
       <<[Head(@) EXCEPT !.copy = 1]>> \o Tail(@)]
  /\ UNCHANGED maintVars
  /\ UNCHANGED <<storeVars, appVars, loginVars, chatVars, initRuns, sendRuns, dmRuns,
                 submits, sends, dms, switches, kindChanges>>

\* setChatMessages(prev => [...prev, newMsg])
MessageInsertMerge(prev, newMsg) == Append(prev, newMsg)

\* the sender lookup answers and the handler updates the list
MessageInsertHandled(s, e) ==
  /\ e \in msgAwait[s]
  /\ msgAwait' = [msgAwait EXCEPT ![s] = @ \ {e}]
  /\ chatMessages' = [chatMessages EXCEPT ![s] =
       MessageInsertMerge(@, WithProfile(e.new, Single({p \in profiles : p.id = e.new.sender_id})))]
  /\ UNCHANGED maintVars
  /\ UNCHANGED <<storeVars, appVars, loginVars, chatOpen, activeRoom, inputText,
                 showRealNames, allProfiles, initRuns, sendRuns, dmRuns, msgChannel,
                 countVars>>

(***************************************************************************)
(* ChatMessage and the reveal button                                       *)
(***************************************************************************)
\* the sender label of ChatMessage
SenderLabel(message, showReal, admin) ==
  IF message.is_anonymous /\ ~admin /\ ~showReal
    THEN "Ghost User"
    ELSE IF message.profiles # Null /\ message.profiles.full_name # ""
      THEN message.profiles.full_name
      ELSE "Unknown"

\* the button is rendered for an admin in an anonymous room
RevealButtonShown(s) ==
  chatOpen[s] /\ isAdmin[s] /\ activeRoom[s] # Null /\ activeRoom[s].type = "anonymous"

\* what ChatMessage puts on the screen for a message: the sender label and
\* the content
ChatMessageView(message, showReal, admin) ==
  [sender |-> SenderLabel(message, showReal, admin), content |-> message.content]

ToggleRevealClearingFlags(s) ==
  /\ RevealButtonShown(s)
  /\ showRealNames' = [showRealNames EXCEPT ![s] = ~showRealNames[s]]
  /\ chatMessages' = [chatMessages EXCEPT ![s] =
       [i \in 1..Len(@) |-> [@[i] EXCEPT !.is_anonymous = showRealNames[s]]]]
  /\ UNCHANGED maintVars
  /\ UNCHANGED <<storeVars, appVars, loginVars, chatOpen, activeRoom, inputText,
                 allProfiles, asyncVars, countVars>>

\* onClick of the reveal button
ToggleReveal(s) ==
  /\ RevealButtonShown(s)
  /\ showRealNames' = [showRealNames EXCEPT ![s] = ~showRealNames[s]]
  /\ UNCHANGED maintVars
  /\ UNCHANGED <<storeVars, appVars, loginVars, chatOpen, activeRoom, inputText,
                 chatMessages, allProfiles, asyncVars, countVars>>

(***************************************************************************)
(* The clock                                                               *)
(***************************************************************************)
\* time passes: an hour or a day
Tick(span) ==
  /\ span \in {Hour, Day}
  /\ ticks < MaxTicks
  /\ ticks' = ticks + 1
  /\ now' = now + span
  /\ UNCHANGED <<profiles, dbRooms, dbMessages, nextId, appVars, loginVars, chatVars,
                 asyncVars, countVars, purgeRuns, adminMsg, purges, startVars, adminVars, portalVars>>

(***************************************************************************)
(* AdminPanel: purgeChats                                                  *)
(***************************************************************************)
\* the buttons of Chat Maintenance
PurgeDays == {1, 7, 30}

PurgedByInclusive(m, cutoff) == m.created_at <= cutoff

\* delete from messages ... .lt('created_at', cutoff)
PurgedBy(m, cutoff) == m.created_at < cutoff

\* a click on a purge button: window.confirm, then the cutoff is computed and
\* the delete issued
PurgeChats(s, days, confirmed) ==
  /\ user[s] # Null
  /\ isAdmin[s]
  /\ days \in PurgeDays
  /\ purges < MaxPurges
  /\ purges' = purges + 1
  /\ purgeRuns' = [purgeRuns EXCEPT ![s] =
       IF confirmed THEN @ \cup {[days |-> days, cutoff |-> Cutoff(days * Day), n |-> purges]}
                    ELSE @]
  /\ UNCHANGED <<storeVars, appVars, loginVars, chatVars, asyncVars, countVars,
                 adminMsg, ticks, startVars, adminVars, portalVars>>

\* the delete answers: with an error (accepted = FALSE) or with the rows removed
PurgeChatsAnswer(s, r, accepted) ==
  /\ r \in purgeRuns[s]
  /\ purgeRuns' = [purgeRuns EXCEPT ![s] = @ \ {r}]
  /\ IF accepted
       THEN /\ dbMessages' = {m \in dbMessages : ~PurgedBy(m, r.cutoff)}
            /\ adminMsg' = [adminMsg EXCEPT ![s] = [text |-> "Purge successful!", error |-> FALSE]]
       ELSE /\ dbMessages' = dbMessages
            /\ adminMsg' = [adminMsg EXCEPT ![s] = [text |-> "error.message", error |-> TRUE]]
  /\ UNCHANGED <<profiles, dbRooms, nextId, now, appVars, loginVars, chatVars, asyncVars,
                 countVars, purges, ticks, startVars, adminVars, portalVars>>

(***************************************************************************)
(* AdminPanel: deleteRoom                                                  *)
(***************************************************************************)
CascadeRoomDeleteNone(msgs, id) == msgs

\* messages.room_id references rooms(id) on delete cascade
CascadeRoomDelete(msgs, id) == {m \in msgs : m.room_id # id}

\* delete from rooms where id = id
RoomsWithout(tbl, id) ==
  LET Other(r) == r.id # id IN SelectSeq(tbl, Other)

\* a click on the delete button of a room of the list: window.confirm, then
\* the delete is issued
DeleteRoom(s, id, confirmed) ==
  /\ user[s] # Null
  /\ isAdmin[s]
  /\ id \in {rooms[s][i].id : i \in 1..Len(rooms[s])}
  /\ deletes < MaxDeletes
  /\ deletes' = deletes + 1
  /\ deleteRuns' = [deleteRuns EXCEPT ![s] =
       IF confirmed THEN @ \cup {[id |-> id, n |-> deletes]} ELSE @]
  /\ UNCHANGED <<storeVars, appVars, loginVars, chatVars, asyncVars, countVars,
                 purgeRuns, adminMsg, purges, ticks, startVars, portalVars>>

\* the delete answers: with an error (accepted = FALSE) or with the row and,
\* by the cascade, its messages removed
DeleteRoomAnswer(s, r, accepted) ==
  /\ r \in deleteRuns[s]
  /\ deleteRuns' = [deleteRuns EXCEPT ![s] = @ \ {r}]
  /\ IF accepted
       THEN /\ dbRooms' = RoomsWithout(dbRooms, r.id)
            /\ dbMessages' = CascadeRoomDelete(dbMessages, r.id)
            /\ adminMsg' = [adminMsg EXCEPT ![s] = [text |-> "Room deleted.", error |-> FALSE]]
       ELSE /\ UNCHANGED <<dbRooms, dbMessages>>
            /\ adminMsg' = [adminMsg EXCEPT ![s] = [text |-> "error.message", error |-> TRUE]]
  /\ UNCHANGED <<profiles, nextId, now, appVars, loginVars, chatVars, asyncVars, countVars,
                 purgeRuns, purges, ticks, startVars, deletes, portalVars>>

(***************************************************************************)
(* Notices: saveNotice, the delete button of the Dashboard, and the        *)
(* notices handler of the channel portal-updates                           *)
(***************************************************************************)
NoticeTitles == {"Exam", "Holiday"}

\* the change feed of table notices puts an event on the channel of every App
PublishNotice(event) ==
  [s \in Sessions |-> Append(portalChannel[s], event)]

\* saveNotice up to its await: an update of the notice that is edited, or an insert
SaveNotice(s, title, editing) ==
  /\ user[s] # Null
  /\ isAdmin[s]
  /\ title # ""
  /\ noticeOps < MaxNoticeOps
  /\ noticeOps' = noticeOps + 1
  /\ noticeRuns' = [noticeRuns EXCEPT ![s] = @ \cup
       {IF editing = Null
          THEN [op |-> "insert", id |-> 0, title |-> title, n |-> noticeOps]
          ELSE [op |-> "update", id |-> editing.id, title |-> title, n |-> noticeOps]}]
  /\ UNCHANGED <<storeVars, appVars, loginVars, chatVars, asyncVars, countVars,
                 purgeRuns, adminMsg, purges, ticks, startVars, adminVars, dbNotices,
                 notices, portalChannel>>

\* the insert or the update of saveNotice answers
SaveNoticeAnswer(s, r) ==
  /\ r \in noticeRuns[s]
  /\ r.op \in {"insert", "update"}
  /\ noticeRuns' = [noticeRuns EXCEPT ![s] = @ \ {r}]
  /\ IF r.op = "insert"
       THEN /\ dbNotices' = dbNotices \cup {NoticeRow(nextId, r.title, now)}
            /\ portalChannel' = PublishNotice([table |-> "notices", eventType |-> "INSERT",
                                                new |-> NoticeRow(nextId, r.title, now)])
            /\ nextId' = nextId + 1
            /\ now' = now + 1
            /\ adminMsg' = [adminMsg EXCEPT ![s] = [text |-> "Notice posted!", error |-> FALSE]]
       ELSE /\ dbNotices' = {IF x.id = r.id THEN [x EXCEPT !.title = r.title] ELSE x : x \in dbNotices}
            /\ portalChannel' =
                 IF \E x \in dbNotices : x.id = r.id
                   THEN LET x == CHOOSE y \in dbNotices : y.id = r.id
                        IN PublishNotice([table |-> "notices", eventType |-> "UPDATE",
                                          new |-> [x EXCEPT !.title = r.title]])
                   ELSE portalChannel
            /\ UNCHANGED <<nextId, now>>
            /\ adminMsg' = [adminMsg EXCEPT ![s] = [text |-> "Notice updated!", error |-> FALSE]]
  /\ UNCHANGED <<profiles, dbRooms, dbMessages, appVars, loginVars, chatVars, asyncVars,
                 countVars, purgeRuns, purges, ticks, startVars, adminVars, notices, noticeOps>>

\* setNotices(prev => prev.filter(n => n.id !== id))
NoticeDelete(prev, id) ==
  LET Other(n) == n.id # id IN SelectSeq(prev, Other)

\* setNotices(prev => [payload.new, ...prev])
NoticeInsert(prev, new) == <<new>> \o prev

\* setNotices(prev => prev.map(n => n.id === payload.new.id ? payload.new : n))
NoticeUpdate(prev, new) ==
  [i \in 1..Len(prev) |-> IF prev[i].id = new.id THEN new ELSE prev[i]]

\* the delete button of a notice on the Dashboard: window.confirm, then the
\* delete is issued
DashboardDeleteNotice(s, notice, confirmed) ==
  /\ user[s] # Null
  /\ isAdmin[s]
  /\ notice \in SeqToSet(notices[s])
  /\ noticeOps < MaxNoticeOps
  /\ noticeOps' = noticeOps + 1
  /\ noticeRuns' = [noticeRuns EXCEPT ![s] =
       IF confirmed THEN @ \cup {[op |-> "delete", id |-> notice.id, n |-> noticeOps]} ELSE @]
  /\ UNCHANGED <<storeVars, appVars, loginVars, chatVars, asyncVars, countVars,
                 purgeRuns, adminMsg, purges, ticks, startVars, adminVars, dbNotices,
                 notices, portalChannel>>

\* the delete answers: with an error (accepted = FALSE), or the row is gone
\* and the entry is taken out of the list of this App
DashboardDeleteAnswer(s, r, accepted) ==
  /\ r \in noticeRuns[s]
  /\ r.op = "delete"
  /\ noticeRuns' = [noticeRuns EXCEPT ![s] = @ \ {r}]
  /\ IF accepted
       THEN /\ dbNotices' = {x \in dbNotices : x.id # r.id}
            /\ portalChannel' =
                 IF \E x \in dbNotices : x.id = r.id
                   THEN PublishNotice([table |-> "notices", eventType |-> "DELETE",
                                       old |-> [id |-> r.id]])
                   ELSE portalChannel
            /\ notices' = [notices EXCEPT ![s] = NoticeDelete(@, r.id)]
       ELSE UNCHANGED <<dbNotices, portalChannel, notices>>
  /\ UNCHANGED <<storeVars, appVars, loginVars, chatVars, asyncVars, countVars,
                 purgeRuns, adminMsg, purges, ticks, startVars, adminVars, noticeOps>>

\* an event of the channel portal-updates reaches its handler
PortalEventDelivered(s) ==
  /\ portalChannel[s] # << >>
  /\ portalChannel' = [portalChannel EXCEPT ![s] = Tail(@)]
  /\ LET payload == Head(portalChannel[s])
     IN /\ notices' = [notices EXCEPT ![s] =
             IF payload.table # "notices" THEN @
             ELSE IF payload.eventType = "INSERT" THEN NoticeInsert(@, payload.new)
             ELSE IF payload.eventType = "DELETE" THEN NoticeDelete(@, payload.old.id)
             ELSE IF payload.eventType = "UPDATE" THEN NoticeUpdate(@, payload.new)
             ELSE @]
        /\ rooms' = [rooms EXCEPT ![s] =
             IF payload.table = "rooms" /\ payload.eventType = "INSERT"
               THEN RoomInsertMerge(@, payload.new)
               ELSE @]
        /\ RoomsChanged(s, IF payload.table = "rooms" /\ payload.eventType = "INSERT"
                             THEN RoomInsertMerge(rooms[s], payload.new)
                             ELSE rooms[s])
  /\ UNCHANGED <<storeVars, user, isAdmin, storedUser, loginVars, chatOpen, inputText,
                 chatMessages, showRealNames, allProfiles, sendRuns, dmRuns, msgAwait,
                 countVars, purgeRuns, adminMsg, purges, ticks, startVars, adminVars,
                 dbNotices, noticeRuns, noticeOps>>

(***************************************************************************)
(* Store: an update of a room's type                                       *)
(***************************************************************************)
\* update rooms set type = kind where id = dbRooms[i].id, which the check
\* constraint and the policy of the table admit
RoomKindUpdated(i, kind) ==
  /\ i \in 1..Len(dbRooms)
  /\ kind \in {"group", "dm", "anonymous"}
  /\ dbRooms[i].type # kind
  /\ kindChanges < MaxKindChanges
  /\ kindChanges' = kindChanges + 1
  /\ dbRooms' = [dbRooms EXCEPT ![i].type = kind]
  /\ UNCHANGED maintVars
  /\ UNCHANGED <<profiles, dbMessages, nextId, now, appVars, loginVars, chatVars,
                 asyncVars, submits, sends, dms, switches, redeliveries>>

(***************************************************************************)
(* ChatPortal: startDM                                                     *)
(***************************************************************************)
\* the canonical name of the dm room of two ids
DMRoomName(selfId, targetId) == JoinColon(SortPair(selfId, targetId))

\* a click on a profile of the directory: startDM up to the await of the lookup
StartDM(s, target) ==
  /\ chatOpen[s]
  /\ user[s] # Null
  /\ target \in SeqToSet(allProfiles[s])
  /\ target.id # user[s].id
  /\ dms < MaxDMs
  /\ dms' = dms + 1
  /\ dmRuns' = [dmRuns EXCEPT ![s] = @ \cup
       {[pc |-> "select", roomName |-> DMRoomName(user[s].id, target.id),
         n |-> dms, alive |-> TRUE]}]
  /\ UNCHANGED maintVars
  /\ UNCHANGED <<storeVars, appVars, loginVars, chatVars, initRuns, sendRuns,
                 msgChannel, msgAwait, submits, sends, switches, kindChanges, redeliveries>>

\* the lookup by name answers
StartDMSelect(s, r) ==
  /\ r \in dmRuns[s]
  /\ r.pc = "select"
  /\ LET existing == RoomByName(dbRooms, r.roomName)
     IN IF existing # Null
          THEN /\ dmRuns' = [dmRuns EXCEPT ![s] = @ \ {r}]
               /\ IF r.alive THEN SetActiveRoom(s, existing)
                            ELSE UNCHANGED <<activeRoom, msgChannel, initRuns>>
          ELSE /\ dmRuns' = [dmRuns EXCEPT ![s] = (@ \ {r}) \cup {[r EXCEPT !.pc = "insert"]}]
               /\ UNCHANGED <<activeRoom, msgChannel, initRuns>>
  /\ UNCHANGED maintVars
  /\ UNCHANGED <<storeVars, appVars, loginVars, chatOpen, inputText, chatMessages,
                 showRealNames, allProfiles, sendRuns, msgAwait, countVars>>

\* the insert of the dm room answers with the created row
StartDMInsert(s, r) ==
  /\ r \in dmRuns[s]
  /\ r.pc = "insert"
  /\ dbRooms' = Append(dbRooms, RoomRow(nextId, r.roomName, "dm"))
  /\ nextId' = nextId + 1
  /\ dmRuns' = [dmRuns EXCEPT ![s] = @ \ {r}]
  /\ IF r.alive THEN SetActiveRoom(s, RoomRow(nextId, r.roomName, "dm"))
               ELSE UNCHANGED <<activeRoom, msgChannel, initRuns>>
  /\ portalChannel' = PublishRooms(<<RoomRow(nextId, r.roomName, "dm")>>)
  /\ UNCHANGED <<purgeRuns, adminMsg, purges, ticks, startVars, adminVars, dbNotices,
                 notices, noticeRuns, noticeOps>>
  /\ UNCHANGED <<profiles, dbMessages, now, appVars, loginVars, chatOpen, inputText,
                 chatMessages, showRealNames, allProfiles, sendRuns, msgAwait, countVars>>

(***************************************************************************)
(* JSON.stringify and JSON.parse of the session record                     *)
(***************************************************************************)
\* the values JSON.parse gives, and undefined for a property that is missing
JSUndefined == [t |-> "undefined"]
JSNull == [t |-> "null"]
JSBoolean(b) == [t |-> "boolean", v |-> b]
JSString(units) == [t |-> "string", v |-> units]
\* an object: its members in the order of the text
JSObject(members) == [t |-> "object", v |-> members]

\* null, true, false
LitNull == <<110, 117, 108, 108>>
LitTrue == <<116, 114, 117, 101>>
LitFalse == <<102, 97, 108, 115, 101>>

\* the keys id, isAdmin, studentId, phoneNumber, name
KeyId == <<105, 100>>
KeyIsAdmin == <<105, 115, 65, 100, 109, 105, 110>>
KeyStudentId == <<115, 116, 117, 100, 101, 110, 116, 73, 100>>
KeyPhoneNumber == <<112, 104, 111, 110, 101, 78, 117, 109, 98, 101, 114>>
KeyName == <<110, 97, 109, 101>>

\* the code units of a display name
NameUnits(name) ==
  CASE name = "Asha" -> <<65, 115, 104, 97>>
    [] name = "Asha Verma" -> <<65, 115, 104, 97, 32, 86, 101, 114, 109, 97>>
    [] name = "Ravi" -> <<82, 97, 118, 105>>
    [] OTHER -> << >>

\* JSON.stringify(newUser): {"name":"..","phoneNumber":"..","isAdmin":..,"id":".."}
\* the strings of the model hold no unit that is written with an escape
JSONStringify(u) ==
  <<123, 34, 110, 97, 109, 101, 34, 58, 34>> \o NameUnits(u.name)
    \o <<34, 44, 34, 112, 104, 111, 110, 101, 78, 117, 109, 98, 101, 114, 34, 58, 34>>
    \o u.phoneNumber
    \o <<34, 44, 34, 105, 115, 65, 100, 109, 105, 110, 34, 58>>
    \o (IF u.isAdmin THEN LitTrue ELSE LitFalse)
    \o <<44, 34, 105, 100, 34, 58, 34>> \o u.id \o <<34, 125>>

StartsWith(t, lit) == Len(t) >= Len(lit) /\ SubSeq(t, 1, Len(lit)) = lit

Drop(t, n) == SubSeq(t, n + 1, Len(t))

ParseFailed == [ok |-> FALSE]

Parsed(val, rest) == [ok |-> TRUE, val |-> val, rest |-> rest]

RECURSIVE ParseStringBody(_, _)
\* the units of a string up to its closing quote; a control unit ends the parse
ParseStringBody(t, acc) ==
  IF t = << >> THEN ParseFailed
  ELSE IF Head(t) = 34 THEN Parsed(acc, Tail(t))
  ELSE IF Head(t) < 32 \/ Head(t) = 92 THEN ParseFailed
  ELSE ParseStringBody(Tail(t), Append(acc, Head(t)))

RECURSIVE ParseValue(_)
RECURSIVE ParseMembers(_, _)
\* a JSON value at the head of t: null, true, false, a string or an object
\* (texts without white space, numbers, arrays and escapes)
ParseValue(t) ==
  IF StartsWith(t, LitNull) THEN Parsed(JSNull, Drop(t, 4))
  ELSE IF StartsWith(t, LitTrue) THEN Parsed(JSBoolean(TRUE), Drop(t, 4))
  ELSE IF StartsWith(t, LitFalse) THEN Parsed(JSBoolean(FALSE), Drop(t, 5))
  ELSE IF t # << >> /\ Head(t) = 34
    THEN LET str == ParseStringBody(Tail(t), << >>)
         IN IF str.ok THEN Parsed(JSString(str.val), str.rest) ELSE ParseFailed
  ELSE IF t # << >> /\ Head(t) = 123
    THEN IF Len(t) >= 2 /\ t[2] = 125
           THEN Parsed(JSObject(<< >>), Drop(t, 2))
           ELSE ParseMembers(Tail(t), << >>)
  ELSE ParseFailed

\* the members of an object from a key on, up to the closing brace
ParseMembers(t, acc) ==
  IF t = << >> \/ Head(t) # 34 THEN ParseFailed
  ELSE LET key == ParseStringBody(Tail(t), << >>)
       IN IF ~key.ok THEN ParseFailed
          ELSE IF key.rest = << >> \/ Head(key.rest) # 58 THEN ParseFailed
          ELSE LET val == ParseValue(Tail(key.rest))
               IN IF ~val.ok THEN ParseFailed
                  ELSE IF val.rest = << >> THEN ParseFailed
                  ELSE IF Head(val.rest) = 125
                    THEN Parsed(JSObject(Append(acc, [k |-> key.val, v |-> val.val])),
                                Tail(val.rest))
                  ELSE IF Head(val.rest) = 44
                    THEN ParseMembers(Tail(val.rest), Append(acc, [k |-> key.val, v |-> val.val]))
                  ELSE ParseFailed

\* JSON.parse(text): a SyntaxError unless the whole text is one value
JSONParse(text) ==
  LET res == ParseValue(text)
  IN IF res.ok
       THEN IF res.rest = << >> THEN [threw |-> FALSE, val |-> res.val] ELSE [threw |-> TRUE]
       ELSE [threw |-> TRUE]

\* value.key of a value that is not null: of an object the last member of
\* that key, of any other value undefined
GetProp(value, key) ==
  IF value.t = "object"
    THEN LET at == {i \in 1..Len(value.v) : value.v[i].k = key}
         IN IF at = {} THEN JSUndefined
            ELSE value.v[CHOOSE i \in at : \A j \in at : j <= i].v
    ELSE JSUndefined

\* the value as a condition
Truthy(value) ==
  CASE value.t = "undefined" -> FALSE
    [] value.t = "null" -> FALSE
    [] value.t = "boolean" -> value.v
    [] value.t = "string" -> value.v # << >>
    [] OTHER -> TRUE

(***************************************************************************)
(* App: the mount effect (init, updateStatus)                              *)
(***************************************************************************)
\* the outcome of init up to its first await for the item of localStorage:
\* "none" (no item or the empty text), "threw" (JSON.parse or parsed.id
\* throws), "skipped" (parsed.id is not truthy), "restored"
InitBranch(item) ==
  IF item = Null THEN "none"
  ELSE IF item.text = << >> THEN "none"
  ELSE IF JSONParse(item.text).threw THEN "threw"
  ELSE IF JSONParse(item.text).val.t = "null" THEN "threw"
  ELSE IF ~Truthy(GetProp(JSONParse(item.text).val, KeyId)) THEN "skipped"
  ELSE "restored"

\* setIsAdmin(parsed.isAdmin || parsed.studentId === 'admin123' ||
\* parsed.phoneNumber === 'admin123'), as a condition
RestoredIsAdmin(parsed) ==
  \/ Truthy(GetProp(parsed, KeyIsAdmin))
  \/ GetProp(parsed, KeyStudentId) = JSString(Admin123)
  \/ GetProp(parsed, KeyPhoneNumber) = JSString(Admin123)

\* setUser(parsed): the parsed object by the properties the App reads
RestoredUser(parsed) ==
  [id |-> GetProp(parsed, KeyId), name |-> GetProp(parsed, KeyName),
   phoneNumber |-> GetProp(parsed, KeyPhoneNumber), isAdmin |-> GetProp(parsed, KeyIsAdmin)]

\* updateStatus(status) up to its await, for the item that init has left:
\* without an item nothing, with a text that does not parse or parses to
\* null an exception nobody handles, otherwise the update for parsed.id
StartStatus(runs, item, status) ==
  IF item = Null THEN runs
  ELSE IF item.text = << >> THEN runs
  ELSE IF JSONParse(item.text).threw THEN runs
  ELSE IF JSONParse(item.text).val.t = "null" THEN runs
  ELSE runs \cup {[id |-> GetProp(JSONParse(item.text).val, KeyId), status |-> status]}

\* the mount effect of App: init up to its first await, then updateStatus(true)
AppMount(s) ==
  /\ [pc |-> "mount"] \in startRuns[s]
  /\ LET branch == InitBranch(storedUser[s])
         left == IF branch = "threw" THEN Null ELSE storedUser[s]
     IN /\ storedUser' = [storedUser EXCEPT ![s] = left]
        /\ statusRuns' = [statusRuns EXCEPT ![s] = StartStatus(@, left, TRUE)]
        /\ IF branch = "restored"
             THEN /\ user' = [user EXCEPT ![s] = RestoredUser(JSONParse(storedUser[s].text).val)]
                  /\ isAdmin' = [isAdmin EXCEPT ![s] = RestoredIsAdmin(JSONParse(storedUser[s].text).val)]
                  /\ fetchRuns' = [fetchRuns EXCEPT ![s] = StartFetch(s)]
                  /\ startRuns' = [startRuns EXCEPT ![s] = {[pc |-> "await"]}]
                  /\ loading' = loading
             ELSE /\ UNCHANGED <<user, isAdmin, fetchRuns>>
                  /\ startRuns' = [startRuns EXCEPT ![s] = {}]
                  /\ loading' = [loading EXCEPT ![s] = FALSE]
  /\ UNCHANGED <<storeVars, rooms, loginError, isAuthenticating, loginTimers, loginRuns,
                 logoutRuns, chatVars, asyncVars, countVars, purgeRuns, adminMsg, purges,
                 ticks, adminVars, portalVars>>

\* fetchGlobalData has returned to init: finally setLoading(false)
AppInitFinally(s) ==
  /\ [pc |-> "await"] \in startRuns[s]
  /\ fetchRuns[s] = {}
  /\ startRuns' = [startRuns EXCEPT ![s] = {}]
  /\ loading' = [loading EXCEPT ![s] = FALSE]
  /\ UNCHANGED <<storeVars, appVars, loginVars, chatVars, asyncVars, countVars,
                 purgeRuns, adminMsg, purges, ticks, statusRuns, adminVars, portalVars>>

\* update profiles set is_online = status where id = r.id: a value that is
\* not a string is the id of no row
UpdateStatusAnswer(s, r) ==
  /\ r \in statusRuns[s]
  /\ statusRuns' = [statusRuns EXCEPT ![s] = @ \ {r}]
  /\ profiles' = IF r.id.t = "string" THEN ProfilesSetOnline(profiles, r.id.v, r.status)
                                      ELSE profiles
  /\ UNCHANGED <<dbRooms, dbMessages, nextId, now, appVars, loginVars, chatVars, asyncVars,
                 countVars, purgeRuns, adminMsg, purges, ticks, loading, startRuns, adminVars, portalVars>>

(***************************************************************************)
(* Specification of the login subsystem: two browsers, an empty store.     *)
(***************************************************************************)
NoSession ==
  /\ user = [s \in Sessions |-> Null]
  /\ isAdmin = [s \in Sessions |-> FALSE]
  /\ storedUser = [s \in Sessions |-> Null]
  /\ rooms = [s \in Sessions |-> << >>]

LoginIdle ==
  /\ loginError = [s \in Sessions |-> ""]
  /\ isAuthenticating = [s \in Sessions |-> FALSE]
  /\ loginTimers = [s \in Sessions |-> {}]
  /\ loginRuns = [s \in Sessions |-> {}]
  /\ fetchRuns = [s \in Sessions |-> {}]
  /\ logoutRuns = [s \in Sessions |-> {}]

AsyncIdle ==
  /\ initRuns = [s \in Sessions |-> {}]
  /\ sendRuns = [s \in Sessions |-> {}]
  /\ dmRuns = [s \in Sessions |-> {}]
  /\ msgChannel = [s \in Sessions |-> << >>]
  /\ msgAwait = [s \in Sessions |-> {}]

CountersZero ==
  /\ submits = 0
  /\ sends = 0
  /\ dms = 0
  /\ switches = 0
  /\ kindChanges = 0
  /\ redeliveries = 0

\* the mount effect of App has run and init has finished
Started ==
  /\ loading = [s \in Sessions |-> FALSE]
  /\ startRuns = [s \in Sessions |-> {}]
  /\ statusRuns = [s \in Sessions |-> {}]

PurgeIdle ==
  /\ purgeRuns = [s \in Sessions |-> {}]
  /\ adminMsg = [s \in Sessions |-> [text |-> "", error |-> FALSE]]
  /\ purges = 0
  /\ ticks = 0

\* no deleteRoom has been called
AdminIdle ==
  /\ deleteRuns = [s \in Sessions |-> {}]
  /\ deletes = 0

\* no notice is stored, none is shown and no event of the channel is under way
PortalIdle ==
  /\ dbNotices = {}
  /\ notices = [s \in Sessions |-> << >>]
  /\ portalChannel = [s \in Sessions |-> << >>]
  /\ noticeRuns = [s \in Sessions |-> {}]
  /\ noticeOps = 0

MaintIdle ==
  /\ PurgeIdle
  /\ Started
  /\ AdminIdle
  /\ PortalIdle

ChatClosed ==
  /\ chatOpen = [s \in Sessions |-> FALSE]
  /\ activeRoom = [s \in Sessions |-> Null]
  /\ inputText = [s \in Sessions |-> EmptyStr]
  /\ chatMessages = [s \in Sessions |-> << >>]
  /\ showRealNames = [s \in Sessions |-> FALSE]
  /\ allProfiles = [s \in Sessions |-> << >>]

Init ==
  /\ profiles = {}
  /\ dbRooms = << >>
  /\ dbMessages = {}
  /\ nextId = 1
  /\ now = 0
  /\ NoSession
  /\ LoginIdle
  /\ ChatClosed
  /\ AsyncIdle
  /\ CountersZero
  /\ MaintIdle

Next ==
  \/ \E s \in Sessions, n \in SubmittedNames, c \in SubmittedCredentials : HandleSubmit(s, n, c)
  \/ \E s \in Sessions : \E t \in loginTimers[s] : LoginTimerFires(s, t)
  \/ \E s \in Sessions : \E r \in loginRuns[s] : HandleLoginSelect(s, r)
  \/ \E s \in Sessions : \E r \in loginRuns[s] : HandleLoginInsert(s, r)
  \/ \E s \in Sessions : FetchGlobalDataQuery(s)
  \/ \E s \in Sessions : FetchGlobalDataInsert(s)
  \/ \E s \in Sessions : HandleLogoutStart(s)
  \/ \E s \in Sessions : \E r \in logoutRuns[s] : HandleLogoutFinish(s, r)

Spec == Init /\ [][Next]_vars

(***************************************************************************)
(* Specification of the chat view: an admin in session 1 and a student in  *)
(* session 2 have logged in and opened the chat, the default rooms exist.  *)
(***************************************************************************)
ChatUser(s) == IF s = 1 THEN NewUser(PseudoId(Admin123), "Asha Verma", Admin123)
                        ELSE NewUser(PseudoId(CredA), "Asha", CredA)

SeededProfiles ==
  {ProfileRow(PseudoId(Admin123), Admin123, "Asha Verma"),
   ProfileRow(PseudoId(CredA), CredA, "Asha"),
   ProfileRow(PseudoId(CredC), CredC, "Ravi")}

\* the sessions of V have logged in and have the chat open on room k of the list
ChatOpenIn(V, k) ==
  /\ profiles = SeededProfiles
  /\ dbRooms = DefaultRooms(1)
  /\ dbMessages = {}
  /\ nextId = 3
  /\ now = 0
  /\ user = [s \in Sessions |-> IF s \in V THEN ChatUser(s) ELSE Null]
  /\ isAdmin = [s \in Sessions |-> (s \in V /\ s = 1)]
  /\ storedUser = [s \in Sessions |-> IF s \in V THEN ChatUser(s) ELSE Null]
  /\ rooms = [s \in Sessions |-> IF s \in V THEN DefaultRooms(1) ELSE << >>]
  /\ LoginIdle
  /\ chatOpen = [s \in Sessions |-> s \in V]
  /\ activeRoom = [s \in Sessions |-> IF s \in V THEN DefaultRooms(1)[k] ELSE Null]
  /\ inputText = [s \in Sessions |-> EmptyStr]
  /\ chatMessages = [s \in Sessions |-> << >>]
  /\ showRealNames = [s \in Sessions |-> FALSE]
  /\ allProfiles = [s \in Sessions |-> IF s \in V THEN SetToSeq(SeededProfiles) ELSE << >>]
  /\ AsyncIdle
  /\ CountersZero
  /\ MaintIdle

\* the chat as it is right after OpenChat and fetchInitial: on the first room
ChatOpenFor(V) == ChatOpenIn(V, 1)

\* one browser is looked at: the admin's or the student's
InitChat == \E v \in Sessions : ChatOpenFor({v})

NextChat ==
  \/ \E s \in Sessions, t \in Texts : TypeText(s, t)
  \/ \E s \in Sessions : SendMessage(s)
  \/ \E s \in Sessions : \E r \in sendRuns[s] : \E accepted \in BOOLEAN : SendMessageAnswer(s, r, accepted)
  \/ \E s \in Sessions : \E room \in SeqToSet(rooms[s]) : SelectRoom(s, room)
  \/ \E s \in Sessions : \E r \in initRuns[s] : FetchInitialProfiles(s, r)
  \/ \E s \in Sessions : \E r \in initRuns[s] : FetchInitialMessages(s, r)
  \/ \E s \in Sessions : MessageEventDelivered(s)
  \/ \E s \in Sessions : \E e \in msgAwait[s] : MessageInsertHandled(s, e)

SpecChat == InitChat /\ [][NextChat]_vars

(***************************************************************************)
(* Specification of the message fan-out of one open room: sends, the       *)
(* change feed and its handler, with a transport that may deliver an       *)
(* event a second time.                                                    *)
(***************************************************************************)
NextFanout ==
  \/ \E s \in Sessions, t \in Texts : TypeText(s, t)
  \/ \E s \in Sessions : SendMessage(s)
  \/ \E s \in Sessions : \E r \in sendRuns[s] : \E accepted \in BOOLEAN : SendMessageAnswer(s, r, accepted)
  \/ \E s \in Sessions : MessageEventDelivered(s)
  \/ \E s \in Sessions : MessageEventRedelivered(s)
  \/ \E s \in Sessions : \E e \in msgAwait[s] : MessageInsertHandled(s, e)

SpecFanout == InitChat /\ [][NextFanout]_vars

(***************************************************************************)
(* Specification of the message input of the chat view: typing, sending,   *)
(* the answers of the insert and the choice of the room.                   *)
(***************************************************************************)
NextSend ==
  \/ \E s \in Sessions, t \in Texts : TypeText(s, t)
  \/ \E s \in Sessions : SendMessage(s)
  \/ \E s \in Sessions : \E r \in sendRuns[s] : \E accepted \in BOOLEAN : SendMessageAnswer(s, r, accepted)
  \/ \E s \in Sessions : \E room \in SeqToSet(rooms[s]) : SelectRoom(s, room)

SpecSend == InitChat /\ [][NextSend]_vars

(***************************************************************************)
(* Specification of the chat view of a student with a store in which the   *)
(* type of the anonymous room is updated.  Table rooms is not in the       *)
(* publication of the change feed, so the browser keeps the rows it has    *)
(* fetched.                                                                *)
(***************************************************************************)
\* the student has clicked on the anonymous room and its messages are fetched
InitKind == ChatOpenIn({2}, 2)

NextKind ==
  \/ \E s \in Sessions : TypeText(s, TextHi)
  \/ \E s \in Sessions : SendMessage(s)
  \/ \E s \in Sessions : \E r \in sendRuns[s] : \E accepted \in BOOLEAN : SendMessageAnswer(s, r, accepted)
  \/ \E s \in Sessions : \E room \in SeqToSet(rooms[s]) : SelectRoom(s, room)
  \/ \E s \in Sessions : \E r \in initRuns[s] : FetchInitialProfiles(s, r)
  \/ \E s \in Sessions : \E r \in initRuns[s] : FetchInitialMessages(s, r)
  \/ \E s \in Sessions : MessageEventDelivered(s)
  \/ \E s \in Sessions : \E e \in msgAwait[s] : MessageInsertHandled(s, e)
  \/ \E kind \in {"group", "anonymous"} : RoomKindUpdated(2, kind)

SpecKind == InitKind /\ [][NextKind]_vars

(***************************************************************************)
(* Specifications of startDM: both browsers have the chat open.  In        *)
(* SpecDM the runs of startDM interleave at their awaits, in SpecDMSeq a   *)
(* run starts only when no other run is under way.                         *)
(***************************************************************************)
InitDM == ChatOpenFor(Sessions)

NoDMUnderWay == \A s \in Sessions : dmRuns[s] = {}

DMSteps ==
  \/ \E s \in Sessions : \E r \in dmRuns[s] : StartDMSelect(s, r)
  \/ \E s \in Sessions : \E r \in dmRuns[s] : StartDMInsert(s, r)
  \/ \E s \in Sessions : \E r \in initRuns[s] : FetchInitialProfiles(s, r)
  \/ \E s \in Sessions : \E r \in initRuns[s] : FetchInitialMessages(s, r)

NextDM ==
  \/ \E s \in Sessions : \E target \in SeqToSet(allProfiles[s]) : StartDM(s, target)
  \/ DMSteps

SpecDM == InitDM /\ [][NextDM]_vars

NextDMSeq ==
  \/ \E s \in Sessions : \E target \in SeqToSet(allProfiles[s]) : NoDMUnderWay /\ StartDM(s, target)
  \/ DMSteps

SpecDMSeq == InitDM /\ [][NextDMSeq]_vars

(***************************************************************************)
(* Specification of one browser from the login screen to the chat view:    *)
(* the store holds the default rooms, the profiles of the admin and of a   *)
(* student, and a message that student sent in the anonymous room.         *)
(***************************************************************************)
Viewer == 1

PortalProfiles ==
  {ProfileRow(PseudoId(Admin123), Admin123, "Asha Verma"),
   ProfileRow(PseudoId(CredC), CredC, "Ravi")}

PortalMessage ==
  MessageRow(3, [room_id |-> 2, sender_id |-> PseudoId(CredC), content |-> TextHi,
                 is_anonymous |-> TRUE], 0)

InitPortal ==
  /\ profiles = PortalProfiles
  /\ dbRooms = DefaultRooms(1)
  /\ dbMessages = {PortalMessage}
  /\ nextId = 4
  /\ now = 1
  /\ NoSession
  /\ LoginIdle
  /\ ChatClosed
  /\ AsyncIdle
  /\ CountersZero
  /\ MaintIdle

NextPortal ==
  \/ \E n \in SubmittedNames, c \in SubmittedCredentials : HandleSubmit(Viewer, n, c)
  \/ \E t \in loginTimers[Viewer] : LoginTimerFires(Viewer, t)
  \/ \E r \in loginRuns[Viewer] : HandleLoginSelect(Viewer, r)
  \/ \E r \in loginRuns[Viewer] : HandleLoginInsert(Viewer, r)
  \/ FetchGlobalDataQuery(Viewer)
  \/ HandleLogoutStart(Viewer)
  \/ \E r \in logoutRuns[Viewer] : HandleLogoutFinish(Viewer, r)
  \/ OpenChat(Viewer)
  \/ \E room \in SeqToSet(rooms[Viewer]) : SelectRoom(Viewer, room)
  \/ \E r \in initRuns[Viewer] : FetchInitialProfiles(Viewer, r)
  \/ \E r \in initRuns[Viewer] : FetchInitialMessages(Viewer, r)
  \/ ToggleReveal(Viewer)

SpecPortal == InitPortal /\ [][NextPortal]_vars

(***************************************************************************)
(* Specification of the initial load of a room: the store holds messages   *)
(* of different ages in both rooms, a student has the chat open on the     *)
(* first room, time passes and the student goes from room to room.         *)
(***************************************************************************)
\* the clock at the start: four days after the first message
WindowStart == 4 * Day

SeededMessage(id, roomId, createdAt) ==
  MessageRow(id, [room_id |-> roomId, sender_id |-> PseudoId(CredC), content |-> TextHi,
                  is_anonymous |-> (roomId = 2)], createdAt)

\* in the first room: three days, exactly two days, one day and one hour
\* old; in the second room: three days and one day old
WindowMessages ==
  {SeededMessage(3, 1, WindowStart - 3 * Day),
   SeededMessage(4, 1, WindowStart - TwoDays),
   SeededMessage(5, 1, WindowStart - Day),
   SeededMessage(6, 1, WindowStart - Hour),
   SeededMessage(7, 2, WindowStart - 3 * Day),
   SeededMessage(8, 2, WindowStart - Day)}

InitWindow ==
  /\ profiles = SeededProfiles
  /\ dbRooms = DefaultRooms(1)
  /\ dbMessages = WindowMessages
  /\ nextId = 9
  /\ now = WindowStart
  /\ user = [s \in Sessions |-> IF s = 2 THEN ChatUser(s) ELSE Null]
  /\ isAdmin = [s \in Sessions |-> FALSE]
  /\ storedUser = [s \in Sessions |-> IF s = 2 THEN ChatUser(s) ELSE Null]
  /\ rooms = [s \in Sessions |-> IF s = 2 THEN DefaultRooms(1) ELSE << >>]
  /\ LoginIdle
  /\ chatOpen = [s \in Sessions |-> s = 2]
  /\ activeRoom = [s \in Sessions |-> IF s = 2 THEN DefaultRooms(1)[1] ELSE Null]
  /\ inputText = [s \in Sessions |-> EmptyStr]
  /\ chatMessages = [s \in Sessions |-> << >>]
  /\ showRealNames = [s \in Sessions |-> FALSE]
  /\ allProfiles = [s \in Sessions |-> << >>]
  /\ initRuns = [s \in Sessions |-> IF s = 2 THEN {[pc |-> "profiles", room |-> DefaultRooms(1)[1]]} ELSE {}]
  /\ sendRuns = [s \in Sessions |-> {}]
  /\ dmRuns = [s \in Sessions |-> {}]
  /\ msgChannel = [s \in Sessions |-> << >>]
  /\ msgAwait = [s \in Sessions |-> {}]
  /\ CountersZero
  /\ MaintIdle

NextWindow ==
  \/ \E span \in {Hour, Day} : Tick(span)
  \/ \E s \in Sessions : \E room \in SeqToSet(rooms[s]) : SelectRoom(s, room)
  \/ \E s \in Sessions : \E r \in initRuns[s] : FetchInitialProfiles(s, r)
  \/ \E s \in Sessions : \E r \in initRuns[s] : FetchInitialMessages(s, r)

SpecWindow == InitWindow /\ [][NextWindow]_vars

(***************************************************************************)
(* Specification of the chat maintenance of the admin panel: the store     *)
(* holds messages of different ages in both rooms, an admin is logged in,  *)
(* time passes.                                                            *)
(***************************************************************************)
PurgeStart == 41 * Day

\* forty, eight, exactly seven, three and exactly one day old and an hour old
PurgeMessages ==
  {SeededMessage(3, 1, PurgeStart - 40 * Day),
   SeededMessage(4, 2, PurgeStart - 8 * Day),
   SeededMessage(5, 1, PurgeStart - 7 * Day),
   SeededMessage(6, 2, PurgeStart - 3 * Day),
   SeededMessage(7, 1, PurgeStart - Day),
   SeededMessage(8, 2, PurgeStart - Hour)}

InitPurge ==
  /\ profiles = SeededProfiles
  /\ dbRooms = DefaultRooms(1)
  /\ dbMessages = PurgeMessages
  /\ nextId = 9
  /\ now = PurgeStart
  /\ user = [s \in Sessions |-> IF s = 1 THEN ChatUser(s) ELSE Null]
  /\ isAdmin = [s \in Sessions |-> s = 1]
  /\ storedUser = [s \in Sessions |-> IF s = 1 THEN ChatUser(s) ELSE Null]
  /\ rooms = [s \in Sessions |-> IF s = 1 THEN DefaultRooms(1) ELSE << >>]
  /\ LoginIdle
  /\ ChatClosed
  /\ AsyncIdle
  /\ CountersZero
  /\ MaintIdle

NextPurge ==
  \/ \E span \in {Hour, Day} : Tick(span)
  \/ \E s \in Sessions, days \in PurgeDays, confirmed \in BOOLEAN : PurgeChats(s, days, confirmed)
  \/ \E s \in Sessions : \E r \in purgeRuns[s] : \E accepted \in BOOLEAN : PurgeChatsAnswer(s, r, accepted)

SpecPurge == InitPurge /\ [][NextPurge]_vars

(***************************************************************************)
(* Specification of the initial load of a room against the message         *)
(* fan-out: a student has just opened the chat on the first room, the      *)
(* load is under way, and messages are sent to the room.  The answer of    *)
(* the messages query is on its way while other handlers run.  In          *)
(* SpecLoadFair every request is answered and every event of the change    *)
(* feed is delivered and handled.                                          *)
(***************************************************************************)
InitLoad ==
  /\ profiles = SeededProfiles
  /\ dbRooms = DefaultRooms(1)
  /\ dbMessages = {}
  /\ nextId = 3
  /\ now = 0
  /\ user = [s \in Sessions |-> IF s = 2 THEN ChatUser(s) ELSE Null]
  /\ isAdmin = [s \in Sessions |-> FALSE]
  /\ storedUser = [s \in Sessions |-> IF s = 2 THEN ChatUser(s) ELSE Null]
  /\ rooms = [s \in Sessions |-> IF s = 2 THEN DefaultRooms(1) ELSE << >>]
  /\ LoginIdle
  /\ chatOpen = [s \in Sessions |-> s = 2]
  /\ activeRoom = [s \in Sessions |-> IF s = 2 THEN DefaultRooms(1)[1] ELSE Null]
  /\ inputText = [s \in Sessions |-> EmptyStr]
  /\ chatMessages = [s \in Sessions |-> << >>]
  /\ showRealNames = [s \in Sessions |-> FALSE]
  /\ allProfiles = [s \in Sessions |-> << >>]
  /\ initRuns = [s \in Sessions |-> IF s = 2 THEN {[pc |-> "profiles", room |-> DefaultRooms(1)[1]]} ELSE {}]
  /\ sendRuns = [s \in Sessions |-> {}]
  /\ dmRuns = [s \in Sessions |-> {}]
  /\ msgChannel = [s \in Sessions |-> << >>]
  /\ msgAwait = [s \in Sessions |-> {}]
  /\ CountersZero
  /\ MaintIdle

LoadProfilesStep == \E s \in Sessions : \E r \in initRuns[s] : FetchInitialProfiles(s, r)
LoadEvaluatedStep == \E s \in Sessions : \E r \in initRuns[s] : FetchInitialEvaluated(s, r)
LoadReturnedStep == \E s \in Sessions : \E r \in initRuns[s] : FetchInitialReturned(s, r)
SendAnswerStep ==
  \E s \in Sessions : \E r \in sendRuns[s] : \E accepted \in BOOLEAN : SendMessageAnswer(s, r, accepted)
EventDeliveredStep == \E s \in Sessions : MessageEventDelivered(s)
EventHandledStep == \E s \in Sessions : \E e \in msgAwait[s] : MessageInsertHandled(s, e)

NextLoad ==
  \/ \E s \in Sessions : TypeText(s, TextHi)
  \/ \E s \in Sessions : SendMessage(s)
  \/ SendAnswerStep
  \/ LoadProfilesStep
  \/ LoadEvaluatedStep
  \/ LoadReturnedStep
  \/ EventDeliveredStep
  \/ EventHandledStep

SpecLoad == InitLoad /\ [][NextLoad]_vars

SpecLoadFair ==
  /\ SpecLoad
  /\ WF_vars(SendAnswerStep)
  /\ WF_vars(LoadProfilesStep)
  /\ WF_vars(LoadEvaluatedStep)
  /\ WF_vars(LoadReturnedStep)
  /\ WF_vars(EventDeliveredStep)
  /\ WF_vars(EventHandledStep)

(***************************************************************************)
(* Specification of the start of the application: each browser holds an    *)
(* item cc_user in localStorage, or none, and its App mounts.  The store   *)
(* holds the profiles and no room.                                         *)
(***************************************************************************)
\* texts of the item: cut off in the middle, an object without id, an
\* object with the empty id, the literal null
TextTruncated == <<123, 34, 105, 100, 34, 58>>
TextNoId == <<123, 34, 110, 97, 109, 101, 34, 58, 34, 65, 115, 104, 97, 34, 125>>
TextEmptyId == <<123, 34, 105, 100, 34, 58, 34, 34, 125>>
TextNullLiteral == <<110, 117, 108, 108>>

\* the items a browser starts with: what handleLogin has written for the
\* admin or the student, one of the texts above, or no item
StartItems ==
  {[text |-> t] : t \in {JSONStringify(ChatUser(1)), JSONStringify(ChatUser(2)),
                          TextTruncated, TextNoId, TextEmptyId, TextNullLiteral}}
    \cup {Null}

InitStart ==
  /\ profiles = SeededProfiles
  /\ dbRooms = << >>
  /\ dbMessages = {}
  /\ nextId = 1
  /\ now = 0
  /\ user = [s \in Sessions |-> Null]
  /\ isAdmin = [s \in Sessions |-> FALSE]
  /\ storedUser \in [Sessions -> StartItems]
  /\ rooms = [s \in Sessions |-> << >>]
  /\ LoginIdle
  /\ ChatClosed
  /\ AsyncIdle
  /\ CountersZero
  /\ PurgeIdle
  /\ loading = [s \in Sessions |-> TRUE]
  /\ startRuns = [s \in Sessions |-> {[pc |-> "mount"]}]
  /\ statusRuns = [s \in Sessions |-> {}]
  /\ AdminIdle
  /\ PortalIdle

NextStart ==
  \/ \E s \in Sessions : AppMount(s)
  \/ \E s \in Sessions : AppInitFinally(s)
  \/ \E s \in Sessions : \E r \in statusRuns[s] : UpdateStatusAnswer(s, r)
  \/ \E s \in Sessions : FetchGlobalDataQuery(s)
  \/ \E s \in Sessions : FetchGlobalDataQueryFailed(s)
  \/ \E s \in Sessions : FetchGlobalDataInsert(s)

SpecStart == InitStart /\ [][NextStart]_vars

(***************************************************************************)
(* Specification of the rooms and their messages: the store holds messages *)
(* of different ages in both rooms, an admin is logged in and deletes      *)
(* rooms and purges messages, a student has the chat open and sends.  An   *)
(* insert and a purge fail only by a constraint of the store.              *)
(***************************************************************************)
InitRooms ==
  /\ profiles = SeededProfiles
  /\ dbRooms = DefaultRooms(1)
  /\ dbMessages = PurgeMessages
  /\ nextId = 9
  /\ now = PurgeStart
  /\ user = [s \in Sessions |-> ChatUser(s)]
  /\ isAdmin = [s \in Sessions |-> s = 1]
  /\ storedUser = [s \in Sessions |-> ChatUser(s)]
  /\ rooms = [s \in Sessions |-> DefaultRooms(1)]
  /\ LoginIdle
  /\ chatOpen = [s \in Sessions |-> s = 2]
  /\ activeRoom = [s \in Sessions |-> IF s = 2 THEN DefaultRooms(1)[2] ELSE Null]
  /\ inputText = [s \in Sessions |-> EmptyStr]
  /\ chatMessages = [s \in Sessions |-> << >>]
  /\ showRealNames = [s \in Sessions |-> FALSE]
  /\ allProfiles = [s \in Sessions |-> << >>]
  /\ AsyncIdle
  /\ CountersZero
  /\ MaintIdle

NextRooms ==
  \/ \E s \in Sessions : TypeText(s, TextHi)
  \/ \E s \in Sessions : SendMessage(s)
  \/ \E s \in Sessions : \E r \in sendRuns[s] : SendMessageAnswer(s, r, TRUE)
  \/ \E s \in Sessions, id \in 1..2 : DeleteRoom(s, id, TRUE)
  \/ \E s \in Sessions : \E r \in deleteRuns[s] : \E accepted \in BOOLEAN : DeleteRoomAnswer(s, r, accepted)
  \/ \E s \in Sessions : PurgeChats(s, 7, TRUE)
  \/ \E s \in Sessions : \E r \in purgeRuns[s] : PurgeChatsAnswer(s, r, TRUE)

SpecRooms == InitRooms /\ [][NextRooms]_vars

(***************************************************************************)
(* Specification of the notices: an admin has logged in and posts, edits   *)
(* and deletes notices, a student has just logged in and fetchGlobalData   *)
(* of that App is at its await; both Apps hold the channel portal-updates. *)
(***************************************************************************)
InitNotices ==
  /\ profiles = SeededProfiles
  /\ dbRooms = DefaultRooms(1)
  /\ dbMessages = {}
  /\ nextId = 3
  /\ now = 0
  /\ user = [s \in Sessions |-> ChatUser(s)]
  /\ isAdmin = [s \in Sessions |-> s = 1]
  /\ storedUser = [s \in Sessions |-> ChatUser(s)]
  /\ rooms = [s \in Sessions |-> IF s = 1 THEN DefaultRooms(1) ELSE << >>]
  /\ loginError = [s \in Sessions |-> ""]
  /\ isAuthenticating = [s \in Sessions |-> FALSE]
  /\ loginTimers = [s \in Sessions |-> {}]
  /\ loginRuns = [s \in Sessions |-> {}]
  /\ fetchRuns = [s \in Sessions |-> IF s = 2 THEN {[pc |-> "query"]} ELSE {}]
  /\ logoutRuns = [s \in Sessions |-> {}]
  /\ ChatClosed
  /\ AsyncIdle
  /\ CountersZero
  /\ MaintIdle

NextNotices ==
  \/ \E s \in Sessions, title \in NoticeTitles :
       \E editing \in SeqToSet(notices[s]) \cup {Null} : SaveNotice(s, title, editing)
  \/ \E s \in Sessions : \E r \in noticeRuns[s] : SaveNoticeAnswer(s, r)
  \/ \E s \in Sessions, confirmed \in BOOLEAN :
       \E notice \in SeqToSet(notices[s]) : DashboardDeleteNotice(s, notice, confirmed)
  \/ \E s \in Sessions : \E r \in noticeRuns[s] : \E accepted \in BOOLEAN : DashboardDeleteAnswer(s, r, accepted)
  \/ \E s \in Sessions : PortalEventDelivered(s)
  \/ \E s \in Sessions : FetchGlobalDataQuery(s)

SpecNotices == InitNotices /\ [][NextNotices]_vars

(***************************************************************************)
(* Specification of the reveal button: the admin and a student have the    *)
(* chat open on the anonymous room and send, the admin turns the names on  *)
(* and off.                                                                *)
(***************************************************************************)
InitReveal == ChatOpenIn(Sessions, 2)

NextReveal ==
  \/ \E s \in Sessions : TypeText(s, TextHi)
  \/ \E s \in Sessions : SendMessage(s)
  \/ \E s \in Sessions : \E r \in sendRuns[s] : SendMessageAnswer(s, r, TRUE)
  \/ EventDeliveredStep
  \/ EventHandledStep
  \/ \E s \in Sessions : ToggleReveal(s)

SpecReveal == InitReveal /\ [][NextReveal]_vars

(***************************************************************************)
(* Specification of startDM with the channel portal-updates: both browsers *)
(* have the chat open, the student runs startDM one run after the other,   *)
(* the admin posts notices, and every request is answered and every event  *)
(* of the channel delivered.                                               *)
(***************************************************************************)
NoticePostedStep == \E s \in Sessions : \E r \in noticeRuns[s] : SaveNoticeAnswer(s, r)
PortalDeliveredStep == \E s \in Sessions : PortalEventDelivered(s)

NextDMFeed ==
  \/ \E target \in SeqToSet(allProfiles[2]) : NoDMUnderWay /\ StartDM(2, target)
  \/ DMSteps
  \/ \E s \in Sessions : SaveNotice(s, "Exam", Null)
  \/ NoticePostedStep
  \/ PortalDeliveredStep

SpecDMFeed == InitDM /\ [][NextDMFeed]_vars

SpecDMFeedFair ==
  /\ SpecDMFeed
  /\ WF_vars(DMSteps)
  /\ WF_vars(NoticePostedStep)
  /\ WF_vars(PortalDeliveredStep)

(***************************************************************************)
(* Properties.                                                             *)
(***************************************************************************)
RoomsNamed(n) == {i \in 1..Len(dbRooms) : dbRooms[i].name = n}

\* both sessions have run startDM towards each other and have the room open
BothOpenedDM(s, t) ==
  /\ s # t
  /\ dmRuns[s] = {} /\ dmRuns[t] = {}
  /\ user[s] # Null /\ user[t] # Null
  /\ activeRoom[s] # Null /\ activeRoom[t] # Null
  /\ activeRoom[s].name = DMRoomName(user[s].id, user[t].id)
  /\ activeRoom[t].name = DMRoomName(user[s].id, user[t].id)

\* C1: once two sessions have run startDM for their pair, also with the two
\* runs interleaved at their awaits, the rooms table holds exactly one room
\* named by the sorted join of the two ids.
C1_OneRoomAfterConcurrentStartDM ==
  \A s, t \in Sessions :
    BothOpenedDM(s, t) =>
      Cardinality(RoomsNamed(DMRoomName(user[s].id, user[t].id))) = 1

\* n is a join of the ids a and b with ':' in one of the two orders
IsPairName(n, a, b) == n = JoinColon(<<a, b>>) \/ n = JoinColon(<<b, a>>)

RoomsOfPair(a, b) == {i \in 1..Len(dbRooms) : IsPairName(dbRooms[i].name, a, b)}

\* C2: with the runs of startDM in sequence, the rooms table never holds a
\* second room for a pair of ids, and the room a has open after startDM
\* towards b is the room b has open after startDM towards a.
C2_StartDMIdempotent ==
  /\ \A p, q \in profiles : p.id # q.id => Cardinality(RoomsOfPair(p.id, q.id)) <= 1
  /\ \A s, t \in Sessions :
       ( /\ s # t /\ user[s] # Null /\ user[t] # Null
         /\ activeRoom[s] # Null /\ activeRoom[t] # Null
         /\ IsPairName(activeRoom[s].name, user[s].id, user[t].id)
         /\ IsPairName(activeRoom[t].name, user[s].id, user[t].id) )
       => activeRoom[s] = activeRoom[t]

\* both sessions have the one room of their pair open after three runs
C2_Witness ==
  /\ dms >= 3
  /\ NoDMUnderWay
  /\ BothOpenedDM(1, 2)
  /\ Cardinality(RoomsOfPair(user[1].id, user[2].id)) = 1

\* the name ChatMessage shows when it does not mask the sender
TrueSenderName(m) ==
  IF m.profiles # Null /\ m.profiles.full_name # "" THEN m.profiles.full_name ELSE "Unknown"

Shown(s) == {chatMessages[s][i] : i \in 1..Len(chatMessages[s])}

\* C3: a message with the anonymous flag shows the true sender name only to
\* an admin whose reveal toggle is on and "Ghost User" otherwise; a message
\* without the flag always shows the true sender name.
C3_RevealPolicy ==
  \A s \in Sessions : chatOpen[s] =>
    \A m \in Shown(s) :
      SenderLabel(m, showRealNames[s], isAdmin[s]) =
        IF m.is_anonymous /\ ~(isAdmin[s] /\ showRealNames[s])
          THEN "Ghost User" ELSE TrueSenderName(m)

\* C4: a viewer who is not an admin is shown "Ghost User" for every message
\* with the anonymous flag, in every reachable state.
C4_NonAdminSeesGhost ==
  \A s \in Sessions : (chatOpen[s] /\ ~isAdmin[s]) =>
    \A m \in Shown(s) :
      m.is_anonymous => SenderLabel(m, showRealNames[s], isAdmin[s]) = "Ghost User"

\* C5: the id a run of handleLogin puts into the session is the id derived
\* from the credential alone, so two runs with the same credential, under
\* any names and in any order with other logins, put the same id.
C5_DeterministicIdentity ==
  /\ \A s \in Sessions : user[s] # Null => user[s].id = PseudoId(user[s].phoneNumber)
  /\ \A s, t \in Sessions :
       (user[s] # Null /\ user[t] # Null /\ user[s].phoneNumber = user[t].phoneNumber)
         => user[s].id = user[t].id

\* two sessions are logged in with one credential under different names,
\* and the profile of that credential is in the store
C5_Witness ==
  /\ user[1] # Null /\ user[2] # Null
  /\ user[1].phoneNumber = user[2].phoneNumber
  /\ user[1].name # user[2].name
  /\ \E p \in profiles : p.student_id = user[1].phoneNumber

\* C6: the displayed message list is in ascending order of creation time.
C6_DisplayedInCreationOrder ==
  \A s \in Sessions :
    \A i, j \in 1..Len(chatMessages[s]) :
      i < j => chatMessages[s][i].created_at <= chatMessages[s][j].created_at

NoTwoOfOneId(list) ==
  \A i, j \in 1..Len(list) : i # j => list[i].id # list[j].id

\* C7: the room list, the message list and the profile list of a session
\* hold no two entries of one id, also when an insert event is delivered twice.
C7_NoDuplicateEntries ==
  \A s \in Sessions :
    /\ NoTwoOfOneId(rooms[s])
    /\ NoTwoOfOneId(chatMessages[s])
    /\ NoTwoOfOneId(allProfiles[s])

\* the row a message of the list was read from
StoredRow(x) == {m \in dbMessages : m.id = x.id}

\* the calls of sendMessage and the inserts that answer in a step
SendCalls(s) == sendRuns'[s] \ sendRuns[s]
SendAnswers(s) == sendRuns[s] \ sendRuns'[s]

\* a step stamps the flag of a call from the kind of the active room, stores
\* the flag of the call and leaves every stored row as it is
FlagStampedAndKept ==
  /\ \A s \in Sessions : \A r \in SendCalls(s) :
       activeRoom[s].type = "anonymous" => r.req.is_anonymous
  /\ \A s \in Sessions : \A r \in SendAnswers(s) :
       \A m \in dbMessages' \ dbMessages : m.is_anonymous = r.req.is_anonymous
  /\ dbMessages \subseteq dbMessages'

CallIssuesOneInsert ==
  \A s \in Sessions : \A r \in SendCalls(s) :
    /\ Trim(inputText[s]) # EmptyStr
    /\ activeRoom[s] # Null
    /\ SendCalls(s) = {r}
    /\ r.req = [room_id |-> activeRoom[s].id, sender_id |-> user[s].id,
                content |-> inputText[s],
                is_anonymous |-> (activeRoom[s].type = "anonymous")]
    /\ dbMessages' = dbMessages

InsertAddsOneRow ==
  dbMessages' # dbMessages =>
    \E s \in Sessions : \E r \in SendAnswers(s) : \E m \in dbMessages' \ dbMessages :
      /\ dbMessages' = dbMessages \cup {m}
      /\ \A x \in dbMessages : x.id # m.id
      /\ [room_id |-> m.room_id, sender_id |-> m.sender_id,
          content |-> m.content, is_anonymous |-> m.is_anonymous] = r.req

\* C9: a call of sendMessage happens only with non-blank text and an active
\* room and issues exactly one insert, whose room is the active room, whose
\* sender is the user of the session, whose content is the text of the
\* input as typed and whose anonymous flag is set exactly when the active
\* room is of kind anonymous at the call; the insert, when the store takes
\* it, adds exactly one row with these fields, and no row is added otherwise.
C9_SendInsertsOneMessage == [][CallIssuesOneInsert /\ InsertAddsOneRow]_vars

\* a message typed with a leading blank and sent in the anonymous room is
\* stored as typed and with the flag, the sender having left the room since
C9_Witness ==
  \E s \in Sessions :
    /\ chatOpen[s]
    /\ activeRoom[s] # Null /\ activeRoom[s].type # "anonymous"
    /\ \E m \in dbMessages :
         /\ m.sender_id = user[s].id
         /\ m.room_id = 2
         /\ m.is_anonymous
         /\ m.content = TextPadded

FailureRestoresText ==
  \A s \in Sessions : \A r \in SendAnswers(s) :
    (dbMessages' = dbMessages /\ r.alive) => inputText'[s] = r.req.content

\* C10: when the insert of a sendMessage fails, the input holds the text of
\* that send right after, whatever was typed or sent since the call.
C10_FailedSendRestoresInput == [][FailureRestoresText]_vars

\* of two sends nothing is stored and the first is still pending: the second,
\* sent while the first was pending, has failed and its text is in the input
C10_Witness ==
  \E s \in Sessions :
    /\ chatOpen[s]
    /\ sends = 2
    /\ dbMessages = {}
    /\ \E r \in sendRuns[s] : sendRuns[s] = {r} /\ r.n = 0 /\ r.req.content # inputText[s]
    /\ inputText[s] # EmptyStr

\* the runs of fetchInitial whose messages query is issued or answered in a step
LoadIssued(s) == {r \in initRuns'[s] \ initRuns[s] : r.pc = "messages"}
LoadAnswered(s) == {r \in initRuns[s] \ initRuns'[s] : r.pc = "messages"}

StoredColumns(x) ==
  [id |-> x.id, room_id |-> x.room_id, sender_id |-> x.sender_id, content |-> x.content,
   is_anonymous |-> x.is_anonymous, created_at |-> x.created_at]

\* the cutoff of a load is the time of its call less two days, and its result
\* is the stored messages of the room later than the cutoff, each once, in
\* ascending order of created_at
LoadIsWindowOfRoom ==
  \A s \in Sessions :
    /\ \A r \in LoadIssued(s) : r.cutoff = now - 2 * Day
    /\ \A r \in LoadAnswered(s) :
         /\ {StoredColumns(chatMessages'[s][i]) : i \in 1..Len(chatMessages'[s])} =
              {m \in dbMessages : m.room_id = r.room.id /\ m.created_at > r.cutoff}
         /\ \A i, j \in 1..Len(chatMessages'[s]) :
              i < j => /\ chatMessages'[s][i].created_at <= chatMessages'[s][j].created_at
                       /\ chatMessages'[s][i].id # chatMessages'[s][j].id

\* C11: the initial load of a room gives exactly the stored messages of that
\* room created later than two days before the load, in ascending order of
\* creation time; older messages and messages of other rooms are not in it.
C11_LoadRecentWindow == [][LoadIsWindowOfRoom]_vars

\* a day has passed and the first room was loaded again: of its four seeded
\* messages only the one that was an hour old at the start is in the list
C11_Witness ==
  /\ ticks >= 1
  /\ switches >= 2
  /\ initRuns[2] = {}
  /\ activeRoom[2] # Null /\ activeRoom[2].id = 1
  /\ {m.id : m \in WindowMessages} \subseteq {m.id : m \in dbMessages}
  /\ {x.id : x \in Shown(2)} \cap {3, 4, 5, 6, 7, 8} = {6}

PurgeIssued(s) == purgeRuns'[s] \ purgeRuns[s]
PurgeAnswered(s) == purgeRuns[s] \ purgeRuns'[s]

\* the cutoff of a purge is the time of the click less the days of the button;
\* its delete, unless it is answered with an error that is reported, removes
\* the messages of all rooms older than the cutoff and no other; rooms,
\* profiles and messages change in no other step
PurgeRemovesOlderOnly ==
  /\ \A s \in Sessions : \A r \in PurgeIssued(s) :
       r.days \in {1, 7, 30} /\ r.cutoff = now - r.days * Day
  /\ \A s \in Sessions : \A r \in PurgeAnswered(s) :
       \/ adminMsg'[s].error /\ dbMessages' = dbMessages
       \/ /\ ~adminMsg'[s].error
          /\ dbMessages' = {m \in dbMessages : m.created_at >= r.cutoff}
  /\ (\A s \in Sessions : PurgeAnswered(s) = {}) => dbMessages' = dbMessages
  /\ dbRooms' = dbRooms
  /\ profiles' = profiles

\* C12: a confirmed purge with cutoff d days deletes every stored message of
\* every room that was created earlier than d days before the click, and
\* leaves every newer message, every room and every profile as it is.
C12_PurgeByAge == [][PurgeRemovesOlderOnly]_vars

\* a purge of seven days at the start has removed the messages of both rooms
\* that were forty and eight days old and kept the one exactly seven days old
C12_Witness ==
  /\ purges >= 1
  /\ ticks = 0
  /\ purgeRuns[1] = {}
  /\ ~adminMsg[1].error /\ adminMsg[1].text # ""
  /\ {m.id : m \in dbMessages} = {5, 6, 7, 8}
  /\ dbRooms = DefaultRooms(1)
  /\ profiles = SeededProfiles

\* C13: a submission of 'admin123', which is not of the 10-digit format,
\* goes on to handleLogin; a stored identity has role admin exactly when its
\* credential is 'admin123' and role student otherwise; the admin flag of a
\* session is set exactly when its credential is 'admin123'.
C13_AdminCredential ==
  /\ ~(Len(Admin123) = 10 /\ \A i \in 1..Len(Admin123) : Admin123[i] \in 48..57)
  /\ \A n \in SubmittedNames \ {""} : SubmitBranch(n, Admin123) = "admin"
  /\ \A p \in profiles :
       /\ p.role \in {"admin", "student"}
       /\ (p.role = "admin") <=> (p.student_id = Admin123)
  /\ \A s \in Sessions :
       IF user[s] = Null
         THEN ~isAdmin[s]
         ELSE /\ isAdmin[s] <=> (user[s].phoneNumber = Admin123)
              /\ user[s].isAdmin <=> (user[s].phoneNumber = Admin123)

\* one browser holds an admin session made with 'admin123', the other a
\* student session, and both identities are stored with their roles
C13_Witness ==
  \E s, t \in Sessions :
    /\ user[s] # Null /\ user[s].phoneNumber = Admin123 /\ isAdmin[s]
    /\ user[t] # Null /\ user[t].phoneNumber # Admin123 /\ ~isAdmin[t]
    /\ \E p \in profiles : p.id = user[s].id /\ p.role = "admin"
    /\ \E p \in profiles : p.id = user[t].id /\ p.role = "student"

\* the lookups of handleLogin answered in a step
SelectAnswered(s) == {r \in loginRuns[s] \ loginRuns'[s] : r.pc = "select"}

\* a lookup that finds a profile of the credential is followed by no write to
\* profiles, and the session gets the stored id and the name of the call
FoundProfileIsKept ==
  \A s \in Sessions : \A r \in SelectAnswered(s) :
    \A p \in profiles :
      p.student_id = r.phoneNumber =>
        /\ profiles' = profiles
        /\ user'[s] # Null
        /\ user'[s].id = p.id
        /\ user'[s].name = r.name
        /\ storedUser'[s] = user'[s]
        /\ \A q \in loginRuns'[s] : q.pc # "insert" \/ q \in loginRuns[s]

\* C14: when a profile of the credential exists, handleLogin writes nothing
\* to profiles, the session id is the stored id and the session name is the
\* name given to the call.
C14_ExistingProfileUnchanged == [][FoundProfileIsKept]_vars

\* a session under a name that differs from the stored name of its identity
C14_Witness ==
  \E s \in Sessions : \E p \in profiles :
    /\ user[s] # Null
    /\ p.student_id = user[s].phoneNumber
    /\ p.id = user[s].id
    /\ p.full_name # user[s].name
    /\ loginRuns[s] = {}

\* the credential passes the checks of the form
WellFormedCredential(c) ==
  c = Admin123 \/ (Len(c) = 10 /\ \A i \in 1..Len(c) : c[i] \in 48..57)

\* the calls of onLogin and the timers a step starts
LoginsStarted(s) ==
  (loginRuns'[s] \ loginRuns[s]) \cup (loginTimers'[s] \ loginTimers[s])

\* a submission either shows an error and changes nothing else, or calls
\* onLogin or starts the timers with a name and a well-formed credential
SubmitRejectsOrStarts ==
  submits' # submits =>
    \E s \in Sessions :
      /\ \A t \in Sessions \ {s} : loginError'[t] = loginError[t] /\ LoginsStarted(t) = {}
      /\ \/ /\ loginError'[s] # ""
            /\ UNCHANGED <<storeVars, appVars, isAuthenticating, loginTimers, loginRuns,
                           fetchRuns, logoutRuns>>
         \/ /\ loginError'[s] = ""
            /\ \E r \in LoginsStarted(s) :
                 /\ LoginsStarted(s) = {r}
                 /\ r.name # ""
                 /\ r.phoneNumber # EmptyStr
                 /\ WellFormedCredential(r.phoneNumber)

\* C15: a submission with an empty name, an empty credential or a credential
\* that is neither 'admin123' nor ten digits takes a branch of handleSubmit
\* that sets an error, and a step of such a branch makes no request to the
\* store and changes no session.
C15_InvalidSubmissionRejected ==
  [][ /\ \A n \in SubmittedNames, c \in SubmittedCredentials :
           (n = "" \/ c = EmptyStr \/ ~WellFormedCredential(c)) =>
             SubmitBranch(n, c) \in {"empty", "format"}
      /\ SubmitRejectsOrStarts ]_vars

\* an error is shown in a browser without a session, nothing is stored and no
\* login is under way, after two submissions
C15_Witness ==
  \E s \in Sessions :
    /\ submits = 2
    /\ loginError[s] = "Please enter a valid 10-digit number"
    /\ user[s] = Null
    /\ profiles = {} /\ dbRooms = << >>
    /\ \A t \in Sessions : loginRuns[t] = {} /\ loginTimers[t] = {} /\ fetchRuns[t] = {}

\* the profile inserts of handleLogin answered in a step
InsertAnswered(s) == {r \in loginRuns[s] \ loginRuns'[s] : r.pc = "insert"}

\* C16: when the profile insert of handleLogin is rejected by the store, the
\* run does not go on to set and persist the session.
C16_InsertFailureSurfaced ==
  [][ \A s \in Sessions : \A r \in InsertAnswered(s) :
        profiles' = profiles => (user'[s] = user[s] /\ storedUser'[s] = storedUser[s]) ]_vars

\* C18: the store never holds more than one room 'General Campus' and one
\* room 'Anonymous Hall': fetchGlobalData inserts the default rooms only
\* into a store without rooms.
C18_DefaultRoomsOnce ==
  /\ Cardinality(RoomsNamed(GeneralCampus)) <= 1
  /\ Cardinality(RoomsNamed(AnonymousHall)) <= 1

\* no handler of the session is under way
SessionSettled(s) ==
  /\ loginRuns[s] = {} /\ loginTimers[s] = {}
  /\ fetchRuns[s] = {} /\ logoutRuns[s] = {}

\* C19: once handleLogin has finished for a user, the stored profile of the
\* session id has is_online = true as long as no session of that user has
\* logged out.
C19_OnlineAfterLogin ==
  \A s \in Sessions :
    (user[s] # Null /\ \A t \in Sessions : SessionSettled(t) /\ user[t] # Null) =>
      \A p \in profiles : p.id = user[s].id => p.is_online

\* the insert events whose handler finishes in a step
EventsHandled(s) == msgAwait[s] \ msgAwait'[s]

\* C17: an insert event of a room that is not the active room any more, its
\* handler having been started before the subscription was removed, does
\* not change the displayed message list.
C17_NoStaleEventInList ==
  [][ \A s \in Sessions : \A e \in EventsHandled(s) :
        (activeRoom[s] = Null \/ e.new.room_id # activeRoom[s].id) =>
          chatMessages'[s] = chatMessages[s] ]_vars

\* C20: the reveal toggle is on only while the active room of the view is
\* the anonymous room in which an admin turned it on: it is off at the
\* start and off again after a change of the room.
C20_RevealToggleRoomScoped ==
  \A s \in Sessions :
    showRealNames[s] =>
      /\ chatOpen[s]
      /\ activeRoom[s] # Null
      /\ activeRoom[s].type = "anonymous"

ShownIds(s) == {chatMessages[s][i].id : i \in 1..Len(chatMessages[s])}

\* the message of this id is stored in the room the session has open
StoredInActiveRoom(s, id) ==
  /\ chatOpen[s]
  /\ activeRoom[s] # Null
  /\ \E m \in dbMessages : m.id = id /\ m.room_id = activeRoom[s].id

\* the ids the store gives to the messages sent
SentIds == 3..(2 + MaxSends)

\* C21: with every request answered and every change event delivered and
\* handled, a message inserted into the room a session has open is in the
\* displayed list of the session from some point on for good, however the
\* insert interleaves with the initial load of the room.
C21_InsertedEventuallyShown ==
  \A s \in Sessions : \A id \in SentIds :
    StoredInActiveRoom(s, id) ~> [](id \in ShownIds(s))

\* C22: the displayed message list of a room holds no message id twice, also
\* when the answer of the initial load and the insert event of the change
\* feed bring the same message.
C22_LoadAndEventsNoDuplicate ==
  \A s \in Sessions :
    chatOpen[s] => Cardinality(ShownIds(s)) = Len(chatMessages[s])

\* the mount effect runs in a step
Mounts(s) == [pc |-> "mount"] \in startRuns[s] /\ [pc |-> "mount"] \notin startRuns'[s]

\* the text is a JSON text of an object that has an id
HasValidId(item) ==
  /\ ~JSONParse(item.text).threw
  /\ JSONParse(item.text).val.t = "object"
  /\ GetProp(JSONParse(item.text).val, KeyId).t = "string"
  /\ GetProp(JSONParse(item.text).val, KeyId).v # << >>

\* an item that fails validation leaves no session and is removed, an item
\* with a valid id gives the session of the record
StartValidatesItem ==
  \A s \in Sessions :
    (Mounts(s) /\ storedUser[s] # Null) =>
      IF HasValidId(storedUser[s])
        THEN /\ user'[s] # Null
             /\ user'[s].id = GetProp(JSONParse(storedUser[s].text).val, KeyId)
             /\ isAdmin'[s] =
                  (GetProp(JSONParse(storedUser[s].text).val, KeyIsAdmin) = JSBoolean(TRUE))
             /\ storedUser'[s] = storedUser[s]
        ELSE /\ user'[s] = Null
             /\ ~isAdmin'[s]
             /\ storedUser'[s] = Null

\* C23: at the start of the application an item cc_user that does not parse
\* or has no valid id gives no session and is removed from localStorage; an
\* item with a valid id restores the user and the admin flag.
C23_InvalidSessionDiscarded == [][StartValidatesItem]_vars

DeleteAnswered(s) == deleteRuns[s] \ deleteRuns'[s]

\* a delete of a room, unless it is answered with an error that is
\* reported, removes the room and every message of the room and no other
DeleteTakesMessages ==
  \A s \in Sessions : \A r \in DeleteAnswered(s) :
    \/ adminMsg'[s].error /\ dbRooms' = dbRooms /\ dbMessages' = dbMessages
    \/ /\ ~adminMsg'[s].error
       /\ \A i \in 1..Len(dbRooms') : dbRooms'[i].id # r.id
       /\ dbMessages' = {m \in dbMessages : m.room_id # r.id}

\* C24: the delete of a room removes all messages of the room with it, and
\* in every reachable state of the store the room of every message exists,
\* under sends, deletes of rooms and purges in any order.
C24_NoOrphanMessages ==
  /\ [][DeleteTakesMessages]_vars
  /\ [](\A m \in dbMessages : \E i \in 1..Len(dbRooms) : dbRooms[i].id = m.room_id)

\* the anonymous room was deleted while a send of the student to it was
\* under way: the seeded messages of the room are gone, the send was
\* answered without a row, and a purge has been carried out as well
C24_Witness ==
  /\ deletes >= 1
  /\ \A i \in 1..Len(dbRooms) : dbRooms[i].id # 2
  /\ sends >= 1
  /\ sendRuns[2] = {}
  /\ inputText[2] = TextHi
  /\ nextId = 9
  /\ purges >= 1
  /\ purgeRuns[1] = {}
  /\ ~adminMsg[1].error
  /\ {m.id : m \in dbMessages} = {5, 7}

\* C25: the notice list of an App is ordered newest first and holds no notice
\* id twice, whatever notice events the channel delivers.
C25_NoticesNewestFirstUnique ==
  \A s \in Sessions :
    \A i, j \in 1..Len(notices[s]) :
      i < j => /\ notices[s][i].created_at >= notices[s][j].created_at
               /\ notices[s][i].id # notices[s][j].id

\* a step that turns the names on or off leaves the stored messages and the
\* message lists as they are
RevealKeepsMessages ==
  (showRealNames' # showRealNames) =>
    /\ dbMessages' = dbMessages
    /\ chatMessages' = chatMessages

\* C26: turning the reveal switch on or off and showing a message masked or
\* unmasked changes no message: a step of the switch leaves the store and
\* the message lists as they are, and every entry of a list carries the
\* content, the sender id and the anonymous flag of its stored row, which
\* is the content that is shown, whatever the label is.
C26_MaskingIsDisplayOnly ==
  /\ [][RevealKeepsMessages]_vars
  /\ [](\A s \in Sessions : \A x \in Shown(s) :
          /\ StoredColumns(x) \in dbMessages
          /\ ChatMessageView(x, showRealNames[s], isAdmin[s]).content = x.content)

\* the admin has the names turned on and the student not: both lists hold
\* an anonymous message of the student with its stored columns, shown to the
\* student as "Ghost User" and to the admin under the name
C26_Witness ==
  /\ showRealNames[1]
  /\ \E x \in Shown(1) : \E y \in Shown(2) :
       /\ x.id = y.id
       /\ x.is_anonymous
       /\ x.sender_id = user[2].id
       /\ StoredColumns(x) \in dbMessages
       /\ ChatMessageView(x, showRealNames[1], isAdmin[1]).sender = "Asha"
       /\ ChatMessageView(y, showRealNames[2], isAdmin[2]).sender = "Ghost User"

\* C27: two sessions logged in with different credentials have different
\* session ids, the ids derived from different credentials being different.
C27_DistinctCredentialsDistinctIds ==
  \A s, t \in Sessions :
    (user[s] # Null /\ user[t] # Null /\ user[s].phoneNumber # user[t].phoneNumber) =>
      /\ PseudoId(user[s].phoneNumber) # PseudoId(user[t].phoneNumber)
      /\ user[s].id # user[t].id

\* no load and no insert handler of the session is under way
ChatSettled(s) == initRuns[s] = {} /\ msgAwait[s] = {} /\ msgChannel[s] = << >>

\* C28: every message of the displayed list belongs to the active room, also
\* after a change of the room during a load whose answer arrives after the
\* answer of the load of the new room; stated for the states in which every
\* load has been answered.
C28_ListOfActiveRoom ==
  \A s \in Sessions :
    (chatOpen[s] /\ activeRoom[s] # Null /\ ChatSettled(s)) =>
      \A x \in Shown(s) : x.room_id = activeRoom[s].id

\* C29: no two rows of the rooms table carry the name 'General Campus' and
\* no two the name 'Anonymous Hall', with several Apps starting at once and
\* with a rooms query of fetchGlobalData that is answered with an error.
C29_DefaultRoomNamesUnique ==
  \A i, j \in 1..Len(dbRooms) :
    (i # j /\ dbRooms[i].name = dbRooms[j].name) =>
      dbRooms[i].name \notin {GeneralCampus, AnonymousHall}

RoomIds(s) == {rooms[s][i].id : i \in 1..Len(rooms[s])}

\* the ids the store gives to the rooms startDM creates
DMRoomIds == 3..(2 + MaxDMs)

\* C30: with every request answered and every event of the channel
\* delivered, a dm room that startDM has created is in the room list of
\* every session that has the chat open from some point on.
C30_CreatedDMRoomListed ==
  \A k \in DMRoomIds :
    (\E i \in 1..Len(dbRooms) : dbRooms[i].id = k /\ dbRooms[i].type = "dm")
      ~> (\A s \in Sessions : chatOpen[s] => k \in RoomIds(s))

=============================================================================
